---- MODULE Spec2Model ----
(***************************************************************************)
(* A model of the mathcat bounding-volume kernel: box3 (AABB), obb3 (OBB)  *)
(* and raycast3 (ray queries).                                             *)
(*                                                                         *)
(* Numbers.  A JavaScript number is modelled as an exact rational n/d in   *)
(* lowest terms (d > 0), or one of the three IEEE-754 specials:            *)
(*     +Infinity = 1/0,   -Infinity = -1/0,   NaN = 0/0.                   *)
(* Arithmetic and comparisons follow IEEE-754 on the specials (inf - inf,  *)
(* 0 * inf and 0/0 are NaN, every ordered comparison with NaN is false).   *)
(* Rounding of finite results and the sign of zero are not modelled: the   *)
(* finite part of the model is exact real arithmetic.                      *)
(*                                                                         *)
(* Arrays.  A source index i of a Vec3 / Mat3 / Mat4 / Box3 is index i+1   *)
(* of the corresponding tuple here.                                        *)
(***************************************************************************)
EXTENDS Integers, Sequences, FiniteSets, TLC

VARIABLES
    call,   \* the last call: its name and arguments
    ret,    \* the boolean the last predicate returned
    written, \* the Box3 / Vec3 the last call wrote or returned
    obb,    \* the OBB3 object the obb3 mutators write to
    res,    \* the IntersectsTriangleResult object raycast3 writes to
    steps,  \* the number of obb3 mutator calls so far
    scratch \* the module-level scratch buffers of box3, obb3 and raycast3

vars == <<call, ret, written, obb, res, steps, scratch>>

----------------------------------------------------------------------------
(* Numbers *)

RECURSIVE GCD(_, _)
GCD(a, b) == IF b = 0 THEN a ELSE GCD(b, a % b)

IAbs(k) == IF k < 0 THEN -k ELSE k

Rat(n, d) ==
    LET g == GCD(IAbs(n), IAbs(d))
        s == IF d < 0 THEN -1 ELSE 1
    IN  [n |-> s * (n \div g), d |-> s * (d \div g)]

I(k) == [n |-> k, d |-> 1]

PosInf == [n |-> 1, d |-> 0]
NegInf == [n |-> -1, d |-> 0]
NaN == [n |-> 0, d |-> 0]

Zero == I(0)
One == I(1)
Half == [n |-> 1, d |-> 2]

IsNaN(x) == x.n = 0 /\ x.d = 0
IsInf(x) == x.n # 0 /\ x.d = 0
IsFinite(x) == x.d # 0

ISign(k) == IF k < 0 THEN -1 ELSE IF k > 0 THEN 1 ELSE 0

Neg(x) == [n |-> -x.n, d |-> x.d]

Add(x, y) ==
    IF IsNaN(x) \/ IsNaN(y) THEN NaN
    ELSE IF IsInf(x) THEN (IF IsInf(y) /\ y.n # x.n THEN NaN ELSE x)
    ELSE IF IsInf(y) THEN y
    ELSE Rat(x.n * y.d + y.n * x.d, x.d * y.d)

Sub(x, y) == Add(x, Neg(y))

Mul(x, y) ==
    IF IsNaN(x) \/ IsNaN(y) THEN NaN
    ELSE IF IsInf(x) \/ IsInf(y)
         THEN [n |-> ISign(x.n) * ISign(y.n), d |-> 0]
    ELSE Rat(x.n * y.n, x.d * y.d)

\* x / y; a zero divisor is taken as +0
Div(x, y) ==
    IF IsNaN(x) \/ IsNaN(y) THEN NaN
    ELSE IF IsInf(y) THEN (IF IsInf(x) THEN NaN ELSE Zero)
    ELSE IF IsInf(x) THEN [n |-> ISign(x.n) * (IF y.n < 0 THEN -1 ELSE 1), d |-> 0]
    ELSE IF y.n = 0 THEN [n |-> ISign(x.n), d |-> 0]
    ELSE Rat(x.n * y.d, x.d * y.n)

\* x < y
Lt(x, y) ==
    IF IsNaN(x) \/ IsNaN(y) THEN FALSE
    ELSE IF x.d = 0 /\ y.d = 0 THEN x.n < y.n
    ELSE x.n * y.d < y.n * x.d

\* x === y
Eq(x, y) == ~IsNaN(x) /\ ~IsNaN(y) /\ x = y

Gt(x, y) == Lt(y, x)
Le(x, y) == Lt(x, y) \/ Eq(x, y)
Ge(x, y) == Le(y, x)

\* Math.abs
Abs(x) == [n |-> IAbs(x.n), d |-> x.d]

\* Math.max / Math.min of two numbers (NaN if either is NaN)
Max(x, y) == IF IsNaN(x) \/ IsNaN(y) THEN NaN ELSE IF Lt(x, y) THEN y ELSE x
Min(x, y) == IF IsNaN(x) \/ IsNaN(y) THEN NaN ELSE IF Lt(y, x) THEN y ELSE x

\* Math.sqrt, exact on the squares of rationals (the only finite arguments
\* the modelled inputs produce)
ISqrt(k) == CHOOSE r \in 0..k : r * r = k
Sqrt(x) ==
    IF IsNaN(x) \/ x.n < 0 THEN NaN
    ELSE IF IsInf(x) THEN PosInf
    ELSE [n |-> ISqrt(x.n), d |-> ISqrt(x.d)]

----------------------------------------------------------------------------
(* vec3 *)

V(x, y, z) == <<I(x), I(y), I(z)>>

vec3_subtract(a, b) == <<Sub(a[1], b[1]), Sub(a[2], b[2]), Sub(a[3], b[3])>>

vec3_add(a, b) == <<Add(a[1], b[1]), Add(a[2], b[2]), Add(a[3], b[3])>>

vec3_scale(a, k) == <<Mul(a[1], k), Mul(a[2], k), Mul(a[3], k)>>

vec3_dot(a, b) == Add(Add(Mul(a[1], b[1]), Mul(a[2], b[2])), Mul(a[3], b[3]))

vec3_cross(a, b) ==
    << Sub(Mul(a[2], b[3]), Mul(a[3], b[2])),
       Sub(Mul(a[3], b[1]), Mul(a[1], b[3])),
       Sub(Mul(a[1], b[2]), Mul(a[2], b[1])) >>

----------------------------------------------------------------------------
(* mat3: a Mat3 is a 9-tuple in column-major order *)

mat3_create == <<One, Zero, Zero, Zero, One, Zero, Zero, Zero, One>>

mat3_identity(m) == mat3_create

\* column j (1..3) of a Mat3
Col(m, j) == <<m[3 * j - 2], m[3 * j - 1], m[3 * j]>>

Sum3(x, y, z) == Add(Add(x, y), z)

\* mat3.multiply(out, a, b): out = a * b, column j of out is a applied to
\* column j of b
mat3_multiply(a, b) ==
    [k \in 1..9 |->
        LET j == (k - 1) \div 3
            i == (k - 1) % 3
        IN  Sum3(Mul(b[3 * j + 1], a[i + 1]),
                 Mul(b[3 * j + 2], a[i + 4]),
                 Mul(b[3 * j + 3], a[i + 7]))]

\* mat3.fromMat4: the upper-left 3x3 of a column-major Mat4
mat3_fromMat4(a) == <<a[1], a[2], a[3], a[5], a[6], a[7], a[9], a[10], a[11]>>

\* mat3.fromQuat for q = <<x, y, z, w>>
mat3_fromQuat(q) ==
    LET x == q[1]
        y == q[2]
        z == q[3]
        w == q[4]
        x2 == Add(x, x)
        y2 == Add(y, y)
        z2 == Add(z, z)
        xx == Mul(x, x2)
        yx == Mul(y, x2)
        yy == Mul(y, y2)
        zx == Mul(z, x2)
        zy == Mul(z, y2)
        zz == Mul(z, z2)
        wx == Mul(w, x2)
        wy == Mul(w, y2)
        wz == Mul(w, z2)
    IN  << Sub(Sub(One, yy), zz), Add(yx, wz), Sub(zx, wy),
           Sub(yx, wz), Sub(Sub(One, xx), zz), Add(zy, wx),
           Add(zx, wy), Sub(zy, wx), Sub(Sub(One, xx), yy) >>

----------------------------------------------------------------------------
(* mat4: a Mat4 is a 16-tuple in column-major order *)

mat4_determinant(a) ==
    LET b0 == Sub(Mul(a[1], a[6]), Mul(a[2], a[5]))
        b1 == Sub(Mul(a[1], a[7]), Mul(a[3], a[5]))
        b2 == Sub(Mul(a[2], a[7]), Mul(a[3], a[6]))
        b3 == Sub(Mul(a[9], a[14]), Mul(a[10], a[13]))
        b4 == Sub(Mul(a[9], a[15]), Mul(a[11], a[13]))
        b5 == Sub(Mul(a[10], a[15]), Mul(a[11], a[14]))
        b6 == Add(Sub(Mul(a[1], b5), Mul(a[2], b4)), Mul(a[3], b3))
        b7 == Add(Sub(Mul(a[5], b5), Mul(a[6], b4)), Mul(a[7], b3))
        b8 == Add(Sub(Mul(a[9], b2), Mul(a[10], b1)), Mul(a[11], b0))
        b9 == Add(Sub(Mul(a[13], b2), Mul(a[14], b1)), Mul(a[15], b0))
    IN  Sub(Add(Sub(Mul(a[8], b6), Mul(a[4], b7)), Mul(a[16], b8)), Mul(a[12], b9))

\* vec3.transformMat4(out, a, m), with its division by w (w || 1.0)
vec3_transformMat4(a, m) ==
    LET w0 == Add(Sum3(Mul(m[4], a[1]), Mul(m[8], a[2]), Mul(m[12], a[3])), m[16])
        w == IF IsNaN(w0) \/ Eq(w0, Zero) THEN One ELSE w0
    IN  << Div(Add(Sum3(Mul(m[1], a[1]), Mul(m[5], a[2]), Mul(m[9], a[3])), m[13]), w),
           Div(Add(Sum3(Mul(m[2], a[1]), Mul(m[6], a[2]), Mul(m[10], a[3])), m[14]), w),
           Div(Add(Sum3(Mul(m[3], a[1]), Mul(m[7], a[2]), Mul(m[11], a[3])), m[15]), w) >>

----------------------------------------------------------------------------
(* obb3 *)

\* Number.EPSILON, the default epsilon of intersectsOBB3.  2^-52 does not fit
\* the integers of TLC; intersectsOBB3 is linear in epsilon, and the model
\* takes 2^-10 in its place
Number_EPSILON == [n |-> 1, d |-> 1024]

obb3_create == [center |-> V(0, 0, 0), halfExtents |-> V(1, 1, 1), rotation |-> mat3_create]

obb3_copy(out, a) ==
    [out EXCEPT !.center = <<a.center[1], a.center[2], a.center[3]>>,
                !.halfExtents = <<a.halfExtents[1], a.halfExtents[2], a.halfExtents[3]>>,
                !.rotation = [k \in 1..9 |-> a.rotation[k]]]

obb3_set(out, center, halfExtents, rotation) ==
    [out EXCEPT !.center = <<center[1], center[2], center[3]>>,
                !.halfExtents = <<halfExtents[1], halfExtents[2], halfExtents[3]>>,
                !.rotation = [k \in 1..9 |-> rotation[k]]]

obb3_setFromCenterHalfExtentsQuaternion(out, center, halfExtents, q) ==
    [out EXCEPT !.center = <<center[1], center[2], center[3]>>,
                !.halfExtents = <<halfExtents[1], halfExtents[2], halfExtents[3]>>,
                !.rotation = mat3_fromQuat(q)]

\* a conversion that takes the min corner for the center
obb3_setFromBox3_minCenter(out, aabb) ==
    LET min == aabb[1]
        max == aabb[2]
    IN  [out EXCEPT
            !.center = <<min[1], min[2], min[3]>>,
            !.halfExtents = << Mul(Sub(max[1], min[1]), Half),
                               Mul(Sub(max[2], min[2]), Half),
                               Mul(Sub(max[3], min[3]), Half) >>,
            !.rotation = mat3_identity(out.rotation)]

\* aabb is the pair <<min, max>> this function indexes (aabb[0], aabb[1])
obb3_setFromBox3(out, aabb) ==
    LET min == aabb[1]
        max == aabb[2]
    IN  [out EXCEPT
            !.center = << Mul(Add(min[1], max[1]), Half),
                          Mul(Add(min[2], max[2]), Half),
                          Mul(Add(min[3], max[3]), Half) >>,
            !.halfExtents = << Mul(Sub(max[1], min[1]), Half),
                               Mul(Sub(max[2], min[2]), Half),
                               Mul(Sub(max[3], min[3]), Half) >>,
            !.rotation = mat3_identity(out.rotation)]

\* _containsPoint_localPoint[i - 1]: point - center projected onto column i of
\* the rotation
obb3_localCoordinate(o, point, i) ==
    LET dx == Sub(point[1], o.center[1])
        dy == Sub(point[2], o.center[2])
        dz == Sub(point[3], o.center[3])
        r == o.rotation
    IN  Add(Add(Mul(dx, r[3 * i - 2]), Mul(dy, r[3 * i - 1])), Mul(dz, r[3 * i]))

obb3_containsPoint(o, point) ==
    /\ Le(Abs(obb3_localCoordinate(o, point, 1)), o.halfExtents[1])
    /\ Le(Abs(obb3_localCoordinate(o, point, 2)), o.halfExtents[2])
    /\ Le(Abs(obb3_localCoordinate(o, point, 3)), o.halfExtents[3])

\* a clamp from above only
obb3_clampDist_upperOnly(o, point, i) ==
    Min(o.halfExtents[i], obb3_localCoordinate(o, point, i))

\* dist of clampPoint for axis i: the projection onto column i, clamped to
\* [-halfExtents[i], halfExtents[i]]
obb3_clampDist(o, point, i) ==
    Max(Neg(o.halfExtents[i]), Min(o.halfExtents[i], obb3_localCoordinate(o, point, i)))

\* out starts as a copy of the center; each axis adds column i times its dist
obb3_clampPoint(out, o, point) ==
    LET r == o.rotation
        step(q, i) ==
            LET dist == obb3_clampDist(o, point, i)
            IN  << Add(q[1], Mul(r[3 * i - 2], dist)),
                   Add(q[2], Mul(r[3 * i - 1], dist)),
                   Add(q[3], Mul(r[3 * i], dist)) >>
    IN  step(step(step(<<o.center[1], o.center[2], o.center[3]>>, 1), 2), 3)

\* a separation test that leaves out the radius of b
Separates_oneRadius(x, ra, rb) == Gt(Abs(x), ra)

\* "if (Math.abs(x) > ra + rb) return false" of intersectsOBB3
Separates(x, ra, rb) == Gt(Abs(x), Add(ra, rb))

\* a cross-axis test that takes |x| >= ra + rb for a separation
obb3_crossAxisSeparates_closed(a, b, R, AbsR, tInA, i, j) ==
    LET i1 == (i + 1) % 3
        i2 == (i + 2) % 3
        j1 == (j + 1) % 3
        j2 == (j + 2) % 3
        ra == Add(Mul(a.halfExtents[i1 + 1], AbsR[i2 + 1][j + 1]),
                  Mul(a.halfExtents[i2 + 1], AbsR[i1 + 1][j + 1]))
        rb == Add(Mul(b.halfExtents[j1 + 1], AbsR[i + 1][j2 + 1]),
                  Mul(b.halfExtents[j2 + 1], AbsR[i + 1][j1 + 1]))
        x == Sub(Mul(tInA[i2 + 1], R[i1 + 1][j + 1]), Mul(tInA[i1 + 1], R[i2 + 1][j + 1]))
    IN  Ge(Abs(x), Add(ra, rb))

\* the test of the cross axis A_i x B_j (i, j in 0..2 as in the source),
\* with i1 = (i+1) mod 3, i2 = (i+2) mod 3 and likewise for j
obb3_crossAxisSeparates(a, b, R, AbsR, tInA, i, j) ==
    LET i1 == (i + 1) % 3
        i2 == (i + 2) % 3
        j1 == (j + 1) % 3
        j2 == (j + 2) % 3
        jlo == IF j1 < j2 THEN j1 ELSE j2
        jhi == IF j1 < j2 THEN j2 ELSE j1
        ilo == IF i1 < i2 THEN i1 ELSE i2
        ihi == IF i1 < i2 THEN i2 ELSE i1
        ra == Add(Mul(a.halfExtents[ilo + 1], AbsR[ihi + 1][j + 1]),
                  Mul(a.halfExtents[ihi + 1], AbsR[ilo + 1][j + 1]))
        rb == Add(Mul(b.halfExtents[jlo + 1], AbsR[i + 1][jhi + 1]),
                  Mul(b.halfExtents[jhi + 1], AbsR[i + 1][jlo + 1]))
        x == Sub(Mul(tInA[i2 + 1], R[i1 + 1][j + 1]), Mul(tInA[i1 + 1], R[i2 + 1][j + 1]))
    IN  Separates(x, ra, rb)

\* the test of the face axis A_i (i in 1..3)
obb3_faceASeparates(a, b, R, AbsR, tInA, i) ==
    Separates(tInA[i], a.halfExtents[i],
              Sum3(Mul(b.halfExtents[1], AbsR[i][1]),
                   Mul(b.halfExtents[2], AbsR[i][2]),
                   Mul(b.halfExtents[3], AbsR[i][3])))

\* a B-axis test that compares the A-frame coordinate i of t instead of
\* the projection of t on B_i
obb3_faceBSeparates_unprojected(a, b, R, AbsR, tInA, i) ==
    Separates(tInA[i],
              Sum3(Mul(a.halfExtents[1], AbsR[1][i]),
                   Mul(a.halfExtents[2], AbsR[2][i]),
                   Mul(a.halfExtents[3], AbsR[3][i])),
              b.halfExtents[i])

\* the test of the face axis B_i (i in 1..3)
obb3_faceBSeparates(a, b, R, AbsR, tInA, i) ==
    Separates(Sum3(Mul(tInA[1], R[1][i]), Mul(tInA[2], R[2][i]), Mul(tInA[3], R[3][i])),
              Sum3(Mul(a.halfExtents[1], AbsR[1][i]),
                   Mul(a.halfExtents[2], AbsR[2][i]),
                   Mul(a.halfExtents[3], AbsR[3][i])),
              b.halfExtents[i])

obb3_intersectsOBB3(a, b, epsilon) ==
    LET aU == [i \in 1..3 |-> Col(a.rotation, i)]
        bU == [i \in 1..3 |-> Col(b.rotation, i)]
        R == [i \in 1..3 |-> [j \in 1..3 |-> vec3_dot(aU[i], bU[j])]]
        t == vec3_subtract(b.center, a.center)
        tInA == <<vec3_dot(t, aU[1]), vec3_dot(t, aU[2]), vec3_dot(t, aU[3])>>
        AbsR == [i \in 1..3 |-> [j \in 1..3 |-> Add(Abs(R[i][j]), epsilon)]]
    IN  /\ \A i \in 1..3 : ~obb3_faceASeparates(a, b, R, AbsR, tInA, i)
        /\ \A i \in 1..3 : ~obb3_faceBSeparates(a, b, R, AbsR, tInA, i)
        /\ \A i \in 0..2, j \in 0..2 : ~obb3_crossAxisSeparates(a, b, R, AbsR, tInA, i, j)

\* intersectsBox3(obb, aabb): the AABB is turned into an OBB (in a scratch
\* object created once) and tested with the default epsilon
obb3_intersectsBox3(o, aabb) ==
    obb3_intersectsOBB3(o, obb3_setFromBox3(obb3_create, aabb), Number_EPSILON)

\* rotations combined in the other order: obb.rotation * extractedRotation
obb3_combineRotations_swapped(extracted, old) == mat3_multiply(old, extracted)

\* "mat3.multiply(out.rotation, _applyMatrix4_rotationMat, obb.rotation)"
obb3_combineRotations(extracted, old) == mat3_multiply(extracted, old)

\* a center that is only translated: center + the translation column
obb3_transformCenter_translated(center, matrix) ==
    <<Add(center[1], matrix[13]), Add(center[2], matrix[14]), Add(center[3], matrix[15])>>

\* "vec3.transformMat4(out.center, obb.center, matrix)"
obb3_transformCenter(center, matrix) == vec3_transformMat4(center, matrix)

obb3_applyMatrix4(out, o, matrix) ==
    LET e == matrix
        sx0 == Sqrt(Sum3(Mul(e[1], e[1]), Mul(e[2], e[2]), Mul(e[3], e[3])))
        sy == Sqrt(Sum3(Mul(e[5], e[5]), Mul(e[6], e[6]), Mul(e[7], e[7])))
        sz == Sqrt(Sum3(Mul(e[9], e[9]), Mul(e[10], e[10]), Mul(e[11], e[11])))
        det == mat4_determinant(matrix)
        sx == IF Lt(det, Zero) THEN Neg(sx0) ELSE sx0
        m == mat3_fromMat4(matrix)
        invSX == Div(One, sx)
        invSY == Div(One, sy)
        invSZ == Div(One, sz)
        rotationMat == << Mul(m[1], invSX), Mul(m[2], invSX), Mul(m[3], invSX),
                          Mul(m[4], invSY), Mul(m[5], invSY), Mul(m[6], invSY),
                          Mul(m[7], invSZ), Mul(m[8], invSZ), Mul(m[9], invSZ) >>
    IN  [out EXCEPT
            !.rotation = obb3_combineRotations(rotationMat, o.rotation),
            !.halfExtents = << Mul(o.halfExtents[1], Abs(sx)),
                               Mul(o.halfExtents[2], Abs(sy)),
                               Mul(o.halfExtents[3], Abs(sz)) >>,
            !.center = obb3_transformCenter(o.center, matrix)]

----------------------------------------------------------------------------
(* raycast3 *)

createIntersectsTriangleResult == [fraction |-> Zero, hit |-> FALSE, frontFacing |-> FALSE]

\* a miss that leaves out.hit as it was
raycast3_miss_stale(out) == [out EXCEPT !.fraction = Zero, !.frontFacing = FALSE]

\* a miss that leaves out.fraction and out.frontFacing as they were
raycast3_miss_hitOnly(out) == [out EXCEPT !.hit = FALSE]

\* the three assignments of every miss path of intersectsTriangle
raycast3_miss(out) == [out EXCEPT !.hit = FALSE, !.fraction = Zero, !.frontFacing = FALSE]

\* culling that drops the front faces instead of the back faces
raycast3_culled_front(DdN, backfaceCulling) == Lt(DdN, Zero) /\ backfaceCulling

\* "if (DdN > 0) { if (backfaceCulling) { ...miss...; return; } }"
raycast3_culled(DdN, backfaceCulling) == Gt(DdN, Zero) /\ backfaceCulling

\* a hit that is reported as front facing whatever the winding
raycast3_frontFacing_always(sign) == TRUE

\* "out.frontFacing = sign < 0"
raycast3_frontFacing(sign) == Lt(sign, Zero)

raycast3_intersectsTriangle(out, ray, a, b, c, backfaceCulling) ==
    LET edge1 == vec3_subtract(b, a)
        edge2 == vec3_subtract(c, a)
        normal == vec3_cross(edge1, edge2)
        DdN0 == vec3_dot(ray.direction, normal)
        sign == IF Gt(DdN0, Zero) THEN I(1) ELSE I(-1)
        DdN == IF Gt(DdN0, Zero) THEN DdN0 ELSE Neg(DdN0)
        diff == vec3_subtract(ray.origin, a)
        DdQxE2 == Mul(sign, vec3_dot(ray.direction, vec3_cross(diff, edge2)))
        DdE1xQ == Mul(sign, vec3_dot(ray.direction, vec3_cross(edge1, diff)))
        QdN == Mul(Neg(sign), vec3_dot(diff, normal))
        t == Div(QdN, DdN)
    IN  IF raycast3_culled(DdN0, backfaceCulling) THEN raycast3_miss(out)
        ELSE IF ~Gt(DdN0, Zero) /\ ~Lt(DdN0, Zero) THEN raycast3_miss(out)
        ELSE IF Lt(DdQxE2, Zero) THEN raycast3_miss(out)
        ELSE IF Lt(DdE1xQ, Zero) THEN raycast3_miss(out)
        ELSE IF Gt(Add(DdQxE2, DdE1xQ), DdN) THEN raycast3_miss(out)
        ELSE IF Lt(QdN, Zero) THEN raycast3_miss(out)
        ELSE IF Le(t, ray.length)
             THEN [out EXCEPT !.hit = TRUE,
                              !.fraction = Div(t, ray.length),
                              !.frontFacing = raycast3_frontFacing(sign)]
        ELSE raycast3_miss(out)

\* |d| < 1e-10.  Every nonzero number of the model has a denominator below
\* 2^31 and so a magnitude above 4e-10: only zero is below the threshold.
BelowParallelThreshold(d) == IsFinite(d) /\ d.n = 0

\* A slab iteration that never swaps t0 and t1 for a negative direction
raycast3_slab_unswapped(ray, aabb, i, s) ==
    LET d == ray.direction[i]
        invD == Div(One, d)
        t0 == Mul(Sub(aabb[1][i], ray.origin[i]), invD)
        t1 == Mul(Sub(aabb[2][i], ray.origin[i]), invD)
        tmin == Max(s.tmin, t0)
        tmax == Min(s.tmax, t1)
    IN  IF ~s.alive THEN s
        ELSE IF BelowParallelThreshold(d)
             THEN IF Lt(ray.origin[i], aabb[1][i]) \/ Gt(ray.origin[i], aabb[2][i])
                  THEN [s EXCEPT !.alive = FALSE]
                  ELSE s
        ELSE [alive |-> ~Lt(tmax, tmin), tmin |-> tmin, tmax |-> tmax]

\* A slab iteration that rejects when tmax <= tmin (an interval of one point)
raycast3_slab_strict(ray, aabb, i, s) ==
    LET d == ray.direction[i]
        invD == Div(One, d)
        a0 == Mul(Sub(aabb[1][i], ray.origin[i]), invD)
        a1 == Mul(Sub(aabb[2][i], ray.origin[i]), invD)
        t0 == IF Lt(invD, Zero) THEN a1 ELSE a0
        t1 == IF Lt(invD, Zero) THEN a0 ELSE a1
        tmin == Max(s.tmin, t0)
        tmax == Min(s.tmax, t1)
    IN  IF ~s.alive THEN s
        ELSE IF BelowParallelThreshold(d)
             THEN IF Lt(ray.origin[i], aabb[1][i]) \/ Gt(ray.origin[i], aabb[2][i])
                  THEN [s EXCEPT !.alive = FALSE]
                  ELSE s
        ELSE [alive |-> ~Le(tmax, tmin), tmin |-> tmin, tmax |-> tmax]

\* One iteration of the slab loop for axis i (1..3) on the running interval
\* s = [alive, tmin, tmax]; alive = FALSE is the early "return false".
raycast3_slab(ray, aabb, i, s) ==
    LET d == ray.direction[i]
        invD == Div(One, d)
        a0 == Mul(Sub(aabb[1][i], ray.origin[i]), invD)
        a1 == Mul(Sub(aabb[2][i], ray.origin[i]), invD)
        t0 == IF Lt(invD, Zero) THEN a1 ELSE a0
        t1 == IF Lt(invD, Zero) THEN a0 ELSE a1
        tmin == Max(s.tmin, t0)
        tmax == Min(s.tmax, t1)
    IN  IF ~s.alive THEN s
        ELSE IF BelowParallelThreshold(d)
             THEN IF Lt(ray.origin[i], aabb[1][i]) \/ Gt(ray.origin[i], aabb[2][i])
                  THEN [s EXCEPT !.alive = FALSE]
                  ELSE s
        ELSE [alive |-> ~Lt(tmax, tmin), tmin |-> tmin, tmax |-> tmax]

\* A slab test that never looks at ray.length (tmax starts unbounded)
raycast3_intersectsBox3_unbounded(ray, aabb) ==
    LET s0 == [alive |-> TRUE, tmin |-> Zero, tmax |-> PosInf]
        s1 == raycast3_slab(ray, aabb, 1, s0)
        s2 == raycast3_slab(ray, aabb, 2, s1)
        s3 == raycast3_slab(ray, aabb, 3, s2)
    IN  s3.alive

raycast3_intersectsBox3(ray, aabb) ==
    LET s0 == [alive |-> TRUE, tmin |-> Zero, tmax |-> ray.length]
        s1 == raycast3_slab(ray, aabb, 1, s0)
        s2 == raycast3_slab(ray, aabb, 2, s1)
        s3 == raycast3_slab(ray, aabb, 3, s2)
    IN  s3.alive

----------------------------------------------------------------------------
(* box3: a Box3 is the flat tuple <<minX, minY, minZ, maxX, maxY, maxZ>> *)

\* common.EPSILON, the tolerance of the approximate comparisons
common_EPSILON == [n |-> 1, d |-> 1000000]

box3_create == <<PosInf, PosInf, PosInf, NegInf, NegInf, NegInf>>

box3_clone(box) == <<box[1], box[2], box[3], box[4], box[5], box[6]>>

box3_copy(out, box) ==
    [out EXCEPT ![1] = box[1], ![2] = box[2], ![3] = box[3],
                ![4] = box[4], ![5] = box[5], ![6] = box[6]]

box3_empty(out) ==
    [out EXCEPT ![1] = PosInf, ![2] = PosInf, ![3] = PosInf,
                ![4] = NegInf, ![5] = NegInf, ![6] = NegInf]

box3_exactEquals(a, b) == \A i \in 1..6 : Eq(a[i], b[i])

\* one conjunct of box3.equals
box3_equalsAt(a, b, i) ==
    Le(Abs(Sub(a[i], b[i])),
       Mul(common_EPSILON, Max(Max(One, Abs(a[i])), Abs(b[i]))))

box3_equals(a, b) == \A i \in 1..6 : box3_equalsAt(a, b, i)

box3_containsPoint(box, point) ==
    /\ Ge(point[1], box[1]) /\ Le(point[1], box[4])
    /\ Ge(point[2], box[2]) /\ Le(point[2], box[5])
    /\ Ge(point[3], box[3]) /\ Le(point[3], box[6])

box3_containsBox3(container, contained) ==
    /\ Ge(contained[1], container[1]) /\ Le(contained[4], container[4])
    /\ Ge(contained[2], container[2]) /\ Le(contained[5], container[5])
    /\ Ge(contained[3], container[3]) /\ Le(contained[6], container[6])

\* an expansion that forgets the box: min = max = point
box3_expandByPoint_replacing(out, box, point) ==
    <<point[1], point[2], point[3], point[1], point[2], point[3]>>

box3_expandByPoint(out, box, point) ==
    << Min(box[1], point[1]), Min(box[2], point[2]), Min(box[3], point[3]),
       Max(box[4], point[1]), Max(box[5], point[2]), Max(box[6], point[3]) >>

box3_union(out, boxA, boxB) ==
    << Min(boxA[1], boxB[1]), Min(boxA[2], boxB[2]), Min(boxA[3], boxB[3]),
       Max(boxA[4], boxB[4]), Max(boxA[5], boxB[5]), Max(boxA[6], boxB[6]) >>

\* a scale that multiplies min and max and does not sort them
box3_scale_unsorted(out, box, scale) ==
    [out EXCEPT ![1] = Mul(box[1], scale[1]), ![4] = Mul(box[4], scale[1]),
                ![2] = Mul(box[2], scale[2]), ![5] = Mul(box[5], scale[2]),
                ![3] = Mul(box[3], scale[3]), ![6] = Mul(box[6], scale[3])]

box3_scale(out, box, scale) ==
    LET minX == Mul(box[1], scale[1])
        maxX == Mul(box[4], scale[1])
        minY == Mul(box[2], scale[2])
        maxY == Mul(box[5], scale[2])
        minZ == Mul(box[3], scale[3])
        maxZ == Mul(box[6], scale[3])
    IN  [out EXCEPT ![1] = Min(minX, maxX), ![4] = Max(minX, maxX),
                    ![2] = Min(minY, maxY), ![5] = Max(minY, maxY),
                    ![3] = Min(minZ, maxZ), ![6] = Max(minZ, maxZ)]

\* a loop that transforms the min corner and the max corner only
box3_transformsCorner_minmax(i) == i \in {0, 7}

\* "for (let i = 0; i < 8; i++)": every corner index is transformed
box3_transformsCorner(i) == i \in 0..7

\* One iteration of the loop of transformMat4, for corner i (0..7).  same =
\* TRUE when out and box are the same array: the corner is then read from
\* what out holds by now.
box3_transformStep(out, box, mat, same, i) ==
    LET src == IF same THEN out ELSE box
        corner == << IF i % 2 = 0 THEN src[1] ELSE src[4],
                     IF (i \div 2) % 2 = 0 THEN src[2] ELSE src[5],
                     IF (i \div 4) % 2 = 0 THEN src[3] ELSE src[6] >>
        c == vec3_transformMat4(corner, mat)
    IN  IF ~box3_transformsCorner(i) THEN out
        ELSE << IF Lt(c[1], out[1]) THEN c[1] ELSE out[1],
                IF Lt(c[2], out[2]) THEN c[2] ELSE out[2],
                IF Lt(c[3], out[3]) THEN c[3] ELSE out[3],
                IF Gt(c[1], out[4]) THEN c[1] ELSE out[4],
                IF Gt(c[2], out[5]) THEN c[2] ELSE out[5],
                IF Gt(c[3], out[6]) THEN c[3] ELSE out[6] >>

\* The loop from corner i on (o is the value of out before the iteration)
RECURSIVE box3_transformLoop(_, _, _, _, _)
box3_transformLoop(out, box, mat, same, i) ==
    IF i > 7 THEN out
    ELSE CHOOSE r \in {box3_transformLoop(box3_transformStep(o, box, mat, same, i),
                                          box, mat, same, i + 1) : o \in {out}} : TRUE

\* transformMat4(out, box, mat); same tells whether out and box are one array
box3_transformMat4(out, box, mat, same) ==
    box3_transformLoop(box3_empty(out), box, mat, same, 0)

\* an overlap test on open intervals: boxes that only touch do not intersect
box3_intersectsBox3_open(boxA, boxB) ==
    /\ Lt(boxA[1], boxB[4]) /\ Gt(boxA[4], boxB[1])
    /\ Lt(boxA[2], boxB[5]) /\ Gt(boxA[5], boxB[2])
    /\ Lt(boxA[3], boxB[6]) /\ Gt(boxA[6], boxB[3])

box3_intersectsBox3(boxA, boxB) ==
    /\ Le(boxA[1], boxB[4]) /\ Ge(boxA[4], boxB[1])
    /\ Le(boxA[2], boxB[5]) /\ Ge(boxA[5], boxB[2])
    /\ Le(boxA[3], boxB[6]) /\ Ge(boxA[6], boxB[3])

\* an axis test that only rejects a triangle beyond the box on the positive side
box3_satAxis_oneSided(axis, v0, v1, v2, extents) ==
    LET p0 == vec3_dot(v0, axis)
        p1 == vec3_dot(v1, axis)
        p2 == vec3_dot(v2, axis)
        minP1 == IF Lt(p1, p0) THEN p1 ELSE p0
        minP == IF Lt(p2, minP1) THEN p2 ELSE minP1
        r == Add(Add(Mul(extents[1], Abs(axis[1])), Mul(extents[2], Abs(axis[2]))),
                 Mul(extents[3], Abs(axis[3])))
    IN  IF Eq(axis[1], Zero) /\ Eq(axis[2], Zero) /\ Eq(axis[3], Zero) THEN TRUE
        ELSE ~Gt(minP, r)

\* One iteration of the loop of _satForAxes on the axis <<ax, ay, az>>:
\* TRUE when the axis is skipped or does not separate, FALSE on "return false".
box3_satAxis(axis, v0, v1, v2, extents) ==
    LET p0 == vec3_dot(v0, axis)
        p1 == vec3_dot(v1, axis)
        p2 == vec3_dot(v2, axis)
        minP1 == IF Lt(p1, p0) THEN p1 ELSE p0
        maxP1 == IF Lt(p1, p0) THEN p0 ELSE IF Gt(p1, p0) THEN p1 ELSE p0
        minP == IF Lt(p2, minP1) THEN p2 ELSE minP1
        maxP == IF Lt(p2, minP1) THEN maxP1 ELSE IF Gt(p2, maxP1) THEN p2 ELSE maxP1
        r == Add(Add(Mul(extents[1], Abs(axis[1])), Mul(extents[2], Abs(axis[2]))),
                 Mul(extents[3], Abs(axis[3])))
    IN  IF Eq(axis[1], Zero) /\ Eq(axis[2], Zero) /\ Eq(axis[3], Zero) THEN TRUE
        ELSE ~(Lt(maxP, Neg(r)) \/ Gt(minP, r))

\* _satForAxes over a sequence of axes
box3_satForAxes(axes, v0, v1, v2, extents) ==
    \A k \in 1..Len(axes) : box3_satAxis(axes[k], v0, v1, v2, extents)

box3_intersectsTriangle3(box, a, b, c) ==
    LET center == << Mul(Add(box[1], box[4]), Half),
                     Mul(Add(box[2], box[5]), Half),
                     Mul(Add(box[3], box[6]), Half) >>
        extents == << Sub(box[4], center[1]), Sub(box[5], center[2]),
                      Sub(box[6], center[3]) >>
        v0 == vec3_subtract(a, center)
        v1 == vec3_subtract(b, center)
        v2 == vec3_subtract(c, center)
        f0 == vec3_subtract(v1, v0)
        f1 == vec3_subtract(v2, v1)
        f2 == vec3_subtract(v0, v2)
        axesCross == << <<Zero, Neg(f0[3]), f0[2]>>,
                        <<Zero, Neg(f1[3]), f1[2]>>,
                        <<Zero, Neg(f2[3]), f2[2]>>,
                        <<f0[3], Zero, Neg(f0[1])>>,
                        <<f1[3], Zero, Neg(f1[1])>>,
                        <<f2[3], Zero, Neg(f2[1])>>,
                        <<Neg(f0[2]), f0[1], Zero>>,
                        <<Neg(f1[2]), f1[1], Zero>>,
                        <<Neg(f2[2]), f2[1], Zero>> >>
        axesBoxFaces == << <<One, Zero, Zero>>, <<Zero, One, Zero>>, <<Zero, Zero, One>> >>
        axisTriangle == << vec3_cross(f0, f1) >>
    IN  IF Gt(box[1], box[4]) \/ Gt(box[2], box[5]) \/ Gt(box[3], box[6]) THEN FALSE
        ELSE IF ~box3_satForAxes(axesCross, v0, v1, v2, extents) THEN FALSE
        ELSE IF ~box3_satForAxes(axesBoxFaces, v0, v1, v2, extents) THEN FALSE
        ELSE box3_satForAxes(axisTriangle, v0, v1, v2, extents)

\* a clamp that only raises the coordinate to the lower bound
box3_closest_lowerOnly(box, center, i) ==
    IF Lt(center[i], box[i]) THEN box[i] ELSE center[i]

\* center[i] clamped into [box[i], box[i+3]] as the ternaries of intersectsSphere do
box3_closest(box, center, i) ==
    IF Lt(center[i], box[i]) THEN box[i]
    ELSE IF Gt(center[i], box[i + 3]) THEN box[i + 3]
    ELSE center[i]

box3_intersectsSphere(box, sphere) ==
    LET dx == Sub(box3_closest(box, sphere.center, 1), sphere.center[1])
        dy == Sub(box3_closest(box, sphere.center, 2), sphere.center[2])
        dz == Sub(box3_closest(box, sphere.center, 3), sphere.center[3])
    IN  Le(Add(Add(Mul(dx, dx), Mul(dy, dy)), Mul(dz, dz)),
           Mul(sphere.radius, sphere.radius))

\* a selection that ignores the sign of the normal component
box3_planeMin_unsigned(box, normal, i) == Mul(normal[i], box[i])

\* the contribution of axis i to minDot / maxDot in intersectsPlane3
box3_planeMin(box, normal, i) ==
    IF Gt(normal[i], Zero) THEN Mul(normal[i], box[i]) ELSE Mul(normal[i], box[i + 3])

box3_planeMax(box, normal, i) ==
    IF Gt(normal[i], Zero) THEN Mul(normal[i], box[i + 3]) ELSE Mul(normal[i], box[i])

box3_intersectsPlane3(box, plane) ==
    LET minDot == Add(Add(box3_planeMin(box, plane.normal, 1),
                          box3_planeMin(box, plane.normal, 2)),
                      box3_planeMin(box, plane.normal, 3))
        maxDot == Add(Add(box3_planeMax(box, plane.normal, 1),
                          box3_planeMax(box, plane.normal, 2)),
                      box3_planeMax(box, plane.normal, 3))
    IN  Le(Add(minDot, plane.constant), Zero) /\ Ge(Add(maxDot, plane.constant), Zero)

----------------------------------------------------------------------------
(* Inputs *)

MaxCoord == 1
MaxLen == 2

Coords == (-MaxCoord)..MaxCoord
Points == {V(x, y, z) : x \in Coords, y \in Coords, z \in Coords}
Directions == {V(x, y, z) : x \in -1..1, y \in -1..1, z \in -1..1}
\* ray directions: the above (the zero vector included) and two that are not
\* along an axis or a diagonal
RayDirections == Directions \cup {V(2, 1, 0), V(1, -2, 2)}
Lengths == {I(k) : k \in 0..MaxLen} \cup {I(10)}

\* the box of the raycast3 "box in front of ray" test, as [min, max]
FrontBox == <<V(-1, -1, 2), V(1, 1, 4)>>
Cubes == {<<V(a, a, a), V(b, b, b)>> : a \in Coords, b \in Coords} 
ValidCubes == {c \in Cubes : Le(c[1][1], c[2][1])}
RayBoxes == ValidCubes \cup {FrontBox}
\* ray origins of the intersectsBox3 calls
RayBoxOrigins == {V(x, y, z) : x \in Coords, y \in Coords, z \in -1..1}

\* Box3 inputs: every interval of Coords on x, three intervals on y, two on z,
\* the empty sentinel and the unbounded box
Intervals == {iv \in Coords \X Coords : iv[1] <= iv[2]}
YIntervals == {<<0, 0>>, <<0, MaxCoord>>, <<-MaxCoord, MaxCoord>>}
ZIntervals == {<<0, 0>>, <<-MaxCoord, MaxCoord>>}
Box(x, y, z) == <<I(x[1]), I(y[1]), I(z[1]), I(x[2]), I(y[2]), I(z[2])>>
FiniteBoxes == {Box(x, y, z) : x \in Intervals, y \in YIntervals, z \in ZIntervals}
UnitBox == <<I(0), I(0), I(0), I(1), I(1), I(1)>>
UnboundedBox == <<NegInf, NegInf, NegInf, PosInf, PosInf, PosInf>>
\* boxes that share only a corner, a face and an edge with UnitBox
TouchingBoxes ==
    { <<I(-1), I(-1), I(-1), I(0), I(0), I(0)>>,
      <<I(-1), I(0), I(0), I(0), I(1), I(1)>>,
      <<I(-1), I(-1), I(0), I(0), I(0), I(1)>> }
\* a valid box that is unbounded on one side of one axis
HalfUnboundedBox == <<I(0), I(0), I(0), PosInf, I(1), I(1)>>
Boxes ==
    FiniteBoxes \cup TouchingBoxes
        \cup {UnitBox, box3_create, UnboundedBox, HalfUnboundedBox}

\* the box of the scale example, and scale vectors with positive, zero and
\* negative components
ExampleBox == <<I(1), I(2), I(3), I(4), I(5), I(6)>>
ScaleVectors ==
    {V(x, y, z) : x, y, z \in -1..1} \cup {<<I(-1), I(-2), Rat(-1, 2)>>, V(2, 3, 4)}

Triangles ==
    {<<p, p, p>> : p \in Points}
    \cup {<<V(0, 0, 0), V(1, 0, 0), V(0, 1, 0)>>,
          <<V(-1, -1, -1), V(1, 0, 1), V(0, 1, 0)>>,
          <<V(0, 0, 1), V(1, 0, -1), V(-1, 1, 0)>>}
Spheres == {[center |-> c, radius |-> I(r)] : c \in Points, r \in 0..MaxLen}
Planes == {[normal |-> n, constant |-> I(k)] : n \in Directions, k \in Coords}

----------------------------------------------------------------------------
(* State *)

NoCall == [op |-> "none"]
NoOutput == <<>>

\* the last call returned the boolean v and wrote no object
Returns(v) == ret' = v /\ written' = NoOutput

\* the last call wrote or returned the object v
Writes(v) == ret' = FALSE /\ written' = v

\* the scratch buffers as the modules initialise them: vec3.create() is
\* [0, 0, 0], mat3.create() the identity, "new Array(27)" 27 empty slots, kept
\* here as 9 axes of 3 components (an empty slot reads as undefined, which
\* arithmetic turns into NaN and which is not === 0)
FreshScratch ==
    [ setFromCenterAndSize_halfSize |-> V(0, 0, 0),
      setFromCenterAndSize_min |-> V(0, 0, 0),
      setFromCenterAndSize_max |-> V(0, 0, 0),
      transformMat4_corner |-> V(0, 0, 0),
      center |-> V(0, 0, 0), extents |-> V(0, 0, 0),
      v0 |-> V(0, 0, 0), v1 |-> V(0, 0, 0), v2 |-> V(0, 0, 0),
      f0 |-> V(0, 0, 0), f1 |-> V(0, 0, 0), f2 |-> V(0, 0, 0),
      triangleNormal |-> V(0, 0, 0), closestPoint |-> V(0, 0, 0),
      axesCross |-> [k \in 1..9 |-> <<NaN, NaN, NaN>>],
      axisTriangle |-> V(0, 0, 0),
      containsPoint_localPoint |-> V(0, 0, 0),
      clampPoint_xAxis |-> V(0, 0, 0), clampPoint_yAxis |-> V(0, 0, 0),
      clampPoint_zAxis |-> V(0, 0, 0),
      intersectsOBB3_R |-> <<V(0, 0, 0), V(0, 0, 0), V(0, 0, 0)>>,
      intersectsOBB3_t |-> V(0, 0, 0), intersectsOBB3_tInA |-> V(0, 0, 0),
      intersectsOBB3_AbsR |-> <<V(0, 0, 0), V(0, 0, 0), V(0, 0, 0)>>,
      intersectsOBB3_aU |-> <<V(0, 0, 0), V(0, 0, 0), V(0, 0, 0)>>,
      intersectsOBB3_bU |-> <<V(0, 0, 0), V(0, 0, 0), V(0, 0, 0)>>,
      intersectsBox3_obbFromAABB |-> obb3_create,
      applyMatrix4_rotationMat |-> mat3_create,
      rayIntersectsTriangle_edge1 |-> V(0, 0, 0), rayIntersectsTriangle_edge2 |-> V(0, 0, 0),
      rayIntersectsTriangle_normal |-> V(0, 0, 0), rayIntersectsTriangle_diff |-> V(0, 0, 0),
      rayIntersectsTriangle_temp |-> V(0, 0, 0) ]

InitIdle ==
    /\ call = NoCall
    /\ ret = FALSE
    /\ written = NoOutput
    /\ obb = obb3_create
    /\ res = createIntersectsTriangleResult
    /\ steps = 0
    /\ scratch = FreshScratch

----------------------------------------------------------------------------
(* raycast3.intersectsBox3 *)

RayIntersectsBox3 ==
    /\ call = NoCall
    /\ \E o \in RayBoxOrigins, d \in RayDirections, len \in Lengths, b \in RayBoxes :
        LET ray == [origin |-> o, direction |-> d, length |-> len]
        IN  /\ call' = [op |-> "raycast3.intersectsBox3", ray |-> ray, aabb |-> b]
            /\ Returns(raycast3_intersectsBox3(ray, b))
            /\ UNCHANGED <<obb, res, steps, scratch>>

NextRayBox == RayIntersectsBox3

SpecRayBox == InitIdle /\ [][NextRayBox]_vars

FrontRay(len) == [origin |-> V(0, 0, 0), direction |-> V(0, 0, 1), length |-> I(len)]

FrontCall(len) ==
    /\ call.op = "raycast3.intersectsBox3"
    /\ call.ray = FrontRay(len)
    /\ call.aabb = FrontBox

\* C1 as stated: the ray from the origin along +z hits the box
\* [-1,-1,2]..[1,1,4] when its length is 10 and misses it when its length is 2.
C1_FrontBoxHitAndMiss ==
    /\ FrontCall(10) => ret = TRUE
    /\ FrontCall(2) => ret = FALSE

\* C1 amended: that ray hits the box exactly when its length is at least 2;
\* at length 2 its end point touches the face z = 2, and touching is a hit.
C1_FrontBoxHitFromLengthTwo ==
    \A k \in 0..10 : FrontCall(k) => (ret <=> k >= 2)

C1_Witness == FrontCall(2) /\ ret = TRUE

RayBoxCall == call.op = "raycast3.intersectsBox3"

\* the origin of the last ray lies in the closed box of the call
OriginInBox ==
    \A i \in 1..3 : /\ Le(call.aabb[1][i], call.ray.origin[i])
                    /\ Le(call.ray.origin[i], call.aabb[2][i])

RayPoint(t) ==
    [i \in 1..3 |-> Add(call.ray.origin[i], Mul(t, call.ray.direction[i]))]

\* the parameters at which the line of the ray crosses a face plane of the
\* box, and 0: if any point of the ray is in the box, one of these is
SlabTimes ==
    {Zero} \cup
    UNION {{Div(Sub(call.aabb[k][i], call.ray.origin[i]), call.ray.direction[i]) :
                k \in 1..2} : i \in {a \in 1..3 : call.ray.direction[a] # Zero}}

\* some point origin + t * direction with 0 <= t <= length is in the closed box
RayMeetsBox ==
    \E t \in SlabTimes :
        /\ Le(Zero, t) /\ Le(t, call.ray.length)
        /\ \A i \in 1..3 : /\ Le(call.aabb[1][i], RayPoint(t)[i])
                           /\ Le(RayPoint(t)[i], call.aabb[2][i])

----------------------------------------------------------------------------
(* box3 queries and copies *)

BoxContainsPoint ==
    /\ call = NoCall
    /\ \E b \in Boxes, p \in Points :
        /\ call' = [op |-> "box3.containsPoint", box |-> b, point |-> p]
        /\ Returns(box3_containsPoint(b, p))
        /\ UNCHANGED <<obb, res, steps, scratch>>

BoxContainsBox3 ==
    /\ call = NoCall
    /\ \E b \in Boxes, o \in Boxes :
        /\ call' = [op |-> "box3.containsBox3", box |-> b, other |-> o]
        /\ Returns(box3_containsBox3(b, o))
        /\ UNCHANGED <<obb, res, steps, scratch>>

BoxIntersectsBox3 ==
    /\ call = NoCall
    /\ \E b \in Boxes, o \in Boxes :
        /\ call' = [op |-> "box3.intersectsBox3", box |-> b, other |-> o]
        /\ Returns(box3_intersectsBox3(b, o))
        /\ UNCHANGED <<obb, res, steps, scratch>>

BoxIntersectsTriangle3 ==
    /\ call = NoCall
    /\ \E b \in Boxes, t \in Triangles :
        /\ call' = [op |-> "box3.intersectsTriangle3", box |-> b, triangle |-> t]
        /\ Returns(box3_intersectsTriangle3(b, t[1], t[2], t[3]))
        /\ UNCHANGED <<obb, res, steps, scratch>>

BoxIntersectsSphere ==
    /\ call = NoCall
    /\ \E b \in Boxes, sp \in Spheres :
        /\ call' = [op |-> "box3.intersectsSphere", box |-> b, sphere |-> sp]
        /\ Returns(box3_intersectsSphere(b, sp))
        /\ UNCHANGED <<obb, res, steps, scratch>>

BoxIntersectsPlane3 ==
    /\ call = NoCall
    /\ \E b \in Boxes, pl \in Planes :
        /\ call' = [op |-> "box3.intersectsPlane3", box |-> b, plane |-> pl]
        /\ Returns(box3_intersectsPlane3(b, pl))
        /\ UNCHANGED <<obb, res, steps, scratch>>

BoxClone ==
    /\ call = NoCall
    /\ \E b \in Boxes :
        /\ call' = [op |-> "box3.clone", box |-> b]
        /\ Writes(box3_clone(b))
        /\ UNCHANGED <<obb, res, steps, scratch>>

BoxCopy ==
    /\ call = NoCall
    /\ \E target \in {box3_create, UnitBox}, b \in Boxes :
        /\ call' = [op |-> "box3.copy", target |-> target, box |-> b]
        /\ Writes(box3_copy(target, b))
        /\ UNCHANGED <<obb, res, steps, scratch>>

BoxScale ==
    /\ call = NoCall
    /\ \E b \in Boxes \cup {ExampleBox}, sc \in ScaleVectors :
        /\ call' = [op |-> "box3.scale", target |-> box3_create, box |-> b, scale |-> sc]
        /\ Writes(box3_scale(box3_create, b, sc))
        /\ UNCHANGED <<obb, res, steps, scratch>>

NextBox ==
    \/ BoxContainsPoint
    \/ BoxContainsBox3
    \/ BoxIntersectsBox3
    \/ BoxIntersectsTriangle3
    \/ BoxIntersectsSphere
    \/ BoxIntersectsPlane3
    \/ BoxClone
    \/ BoxCopy
    \/ BoxScale

SpecBox == InitIdle /\ [][NextBox]_vars

BoxPredicates ==
    {"box3.containsPoint", "box3.containsBox3", "box3.intersectsBox3",
     "box3.intersectsTriangle3", "box3.intersectsSphere", "box3.intersectsPlane3"}

\* C2: every box3 predicate asked of the empty sentinel answers false,
\* whatever the other argument is (another empty box included).
C2_EmptyBoxPredicatesFalse ==
    (call.op \in BoxPredicates /\ call.box = box3_create) => ret = FALSE

\* C4: a clone is equal (box3.equals) to its original, and after a copy
\* out and the source are exactly equal, for valid boxes and the empty box.
C4_CloneEqualsCopyExactEquals ==
    /\ call.op = "box3.clone" => box3_equals(call.box, written)
    /\ call.op = "box3.copy" => box3_exactEquals(written, call.box)

\* min <= max on every axis
ValidBox(b) == \A i \in 1..3 : Le(b[i], b[i + 3])

BoxBoxCall ==
    /\ call.op = "box3.intersectsBox3"
    /\ ValidBox(call.box) /\ ValidBox(call.other)

\* the closed intervals of the two boxes of the call overlap on axis i
OverlapOn(i) ==
    /\ Le(call.box[i], call.other[i + 3])
    /\ Le(call.other[i], call.box[i + 3])

\* the boxes of the call meet, and on some axis in one coordinate only
OnlyTouching ==
    /\ \A i \in 1..3 : OverlapOn(i)
    /\ \E i \in 1..3 : \/ Eq(call.box[i + 3], call.other[i])
                       \/ Eq(call.other[i + 3], call.box[i])

\* C15: for valid boxes intersectsBox3(a, b) is true exactly when the closed
\* intervals overlap on every axis; it equals intersectsBox3(b, a); boxes
\* that share only a face, an edge or a corner intersect.
C15_ClosedIntervalOverlap ==
    BoxBoxCall =>
        /\ ret <=> (\A i \in 1..3 : OverlapOn(i))
        /\ ret = box3_intersectsBox3(call.other, call.box)
        /\ OnlyTouching => ret = TRUE

\* two boxes of positive volume that share one corner only
C15_Witness ==
    /\ BoxBoxCall
    /\ call.box = UnitBox
    /\ call.other = <<I(-1), I(-1), I(-1), I(0), I(0), I(0)>>
    /\ ret = TRUE

FiniteBox(b) == \A i \in 1..6 : IsFinite(b[i])

\* of the last scale call: box.min * s and box.max * s on axis i
ScaledMin(i) == Mul(call.box[i], call.scale[i])
ScaledMax(i) == Mul(call.box[i + 3], call.scale[i])

\* lo and hi are the smaller and the larger of p and q
SmallerAndLarger(lo, hi, p, q) ==
    /\ lo \in {p, q} /\ hi \in {p, q}
    /\ Le(lo, p) /\ Le(lo, q) /\ Ge(hi, p) /\ Ge(hi, q)

\* the scaled box of the last call: sorted products on every axis, a valid
\* box, min and max swapped under a negative scale component
ScaleSorts ==
    /\ \A i \in 1..3 :
        /\ SmallerAndLarger(written[i], written[i + 3], ScaledMin(i), ScaledMax(i))
        /\ Lt(call.scale[i], Zero) =>
                written[i] = ScaledMax(i) /\ written[i + 3] = ScaledMin(i)
    /\ ValidBox(written)
    /\ (call.box = ExampleBox /\ call.scale = V(-1, 1, 1)) =>
            written = <<I(-4), I(2), I(3), I(-1), I(5), I(6)>>

\* C16 as stated: for every valid box and every scale vector the output of
\* scale has min = min(box.min * s, box.max * s), max = max(...) on each
\* axis, is a valid box, and has min and max swapped where s is negative.
C16_ScaleSortsValidBoxes ==
    (call.op = "box3.scale" /\ ValidBox(call.box)) => ScaleSorts

\* C16 amended: the same for every valid box with finite components.
C16_ScaleSortsFiniteBoxes ==
    (call.op = "box3.scale" /\ ValidBox(call.box) /\ FiniteBox(call.box)) => ScaleSorts

\* the example: [1,2,3,4,5,6] scaled by [-1,1,1]
C16_Witness ==
    /\ call.op = "box3.scale"
    /\ call.box = ExampleBox /\ call.scale = V(-1, 1, 1)
    /\ written = <<I(-4), I(2), I(3), I(-1), I(5), I(6)>>

\* the last call was intersectsTriangle3 with three equal vertices
PointTriangleCall ==
    /\ call.op = "box3.intersectsTriangle3"
    /\ call.triangle[1] = call.triangle[2] /\ call.triangle[2] = call.triangle[3]
    /\ ValidBox(call.box)

\* the point is in the closed box of the call
PointInBox(p) ==
    \A i \in 1..3 : Le(call.box[i], p[i]) /\ Le(p[i], call.box[i + 3])

\* C18 as stated: for every valid box and point p,
\* intersectsTriangle3(box, p, p, p) = containsPoint(box, p).
C18_PointTriangleIsContainsPoint ==
    PointTriangleCall => (ret <=> PointInBox(call.triangle[1]))

\* C18 amended: the same for every valid box with finite components.
C18_PointTriangleInFiniteBox ==
    (PointTriangleCall /\ FiniteBox(call.box)) => (ret <=> PointInBox(call.triangle[1]))

\* a point on the boundary of a box of positive volume, and a point outside
C18_Witness ==
    /\ PointTriangleCall /\ call.box = UnitBox
    /\ call.triangle[1] = V(1, 0, 1)
    /\ ret = TRUE

\* the last call was intersectsSphere with a valid box (radius >= 0 by Spheres)
SphereCall ==
    /\ call.op = "box3.intersectsSphere"
    /\ ValidBox(call.box)
    /\ Ge(call.sphere.radius, Zero)

\* the sphere center clamped into [min, max] on axis i
Clamped(i) == Min(Max(call.sphere.center[i], call.box[i]), call.box[i + 3])

\* squared distance from the sphere center to its clamped point
ClampedDistanceSq ==
    LET d(i) == Sub(Clamped(i), call.sphere.center[i])
    IN  Add(Add(Mul(d(1), d(1)), Mul(d(2), d(2))), Mul(d(3), d(3)))

RadiusSq == Mul(call.sphere.radius, call.sphere.radius)

\* C19: for every valid box and sphere with radius >= 0, intersectsSphere is
\* true exactly when the squared distance from the center to the center clamped
\* into the box is <= radius * radius; so a sphere that exactly touches the box
\* intersects, and a sphere whose center is inside the box always intersects.
C19_SphereIffClampedDistance ==
    SphereCall =>
        /\ ret <=> Le(ClampedDistanceSq, RadiusSq)
        /\ Eq(ClampedDistanceSq, RadiusSq) => ret
        /\ PointInBox(call.sphere.center) => ret

\* a sphere of radius 1 centered one unit outside a face of the unit box
C19_Witness ==
    /\ SphereCall /\ call.box = UnitBox
    /\ call.sphere.center = V(-1, 0, 0) /\ call.sphere.radius = One
    /\ ret = TRUE

\* the last call was intersectsPlane3 with a valid finite box
PlaneCall ==
    /\ call.op = "box3.intersectsPlane3"
    /\ ValidBox(call.box) /\ FiniteBox(call.box)

\* the 8 corners of the box of the call
PlaneCorners ==
    {<<call.box[x], call.box[y], call.box[z]>> : x \in {1, 4}, y \in {2, 5}, z \in {3, 6}}

\* dot(normal, corner) + constant
SignedDistance(corner) == Add(vec3_dot(call.plane.normal, corner), call.plane.constant)

\* d is the least / the greatest signed distance of a corner
IsMinDistance(d) ==
    /\ \E c \in PlaneCorners : Eq(SignedDistance(c), d)
    /\ \A c \in PlaneCorners : Le(d, SignedDistance(c))
IsMaxDistance(d) ==
    /\ \E c \in PlaneCorners : Eq(SignedDistance(c), d)
    /\ \A c \in PlaneCorners : Ge(d, SignedDistance(c))

\* C20: for every valid finite box and every plane, intersectsPlane3 is true
\* exactly when the minimum over the 8 corners of dot(normal, corner) + constant
\* is <= 0 and the maximum is >= 0; the per-axis selection by the sign of each
\* normal component yields that minimum and maximum.
C20_PlaneIffCornersStraddle ==
    PlaneCall =>
        LET n == call.plane.normal
            minDot == Add(Add(box3_planeMin(call.box, n, 1), box3_planeMin(call.box, n, 2)),
                          box3_planeMin(call.box, n, 3))
            maxDot == Add(Add(box3_planeMax(call.box, n, 1), box3_planeMax(call.box, n, 2)),
                          box3_planeMax(call.box, n, 3))
        IN  /\ IsMinDistance(Add(minDot, call.plane.constant))
            /\ IsMaxDistance(Add(maxDot, call.plane.constant))
            /\ ret <=> /\ \E c \in PlaneCorners : Le(SignedDistance(c), Zero)
                       /\ \E c \in PlaneCorners : Ge(SignedDistance(c), Zero)

\* the plane x + y + z = 0 meets the unit box in the corner [0, 0, 0] only
C20_Witness ==
    /\ PlaneCall /\ call.box = UnitBox
    /\ call.plane.normal = V(1, 1, 1) /\ call.plane.constant = Zero
    /\ ret = TRUE

----------------------------------------------------------------------------
(* raycast3.intersectsTriangle *)

\* the triangle of the raycast3 backface test (normal <<1, 1, 1>>), the same
\* with its winding reversed, a triangle in the plane z = 0, and a point
BackTriangle == <<V(1, 1, 0), V(0, 1, 1), V(1, 0, 1)>>
RayTriangles ==
    { BackTriangle,
      <<V(1, 1, 0), V(1, 0, 1), V(0, 1, 1)>>,
      <<V(-2, -2, 0), V(2, -2, 0), V(0, 2, 0)>>,
      <<V(0, 0, 0), V(0, 0, 0), V(0, 0, 0)>> }
RayOrigins == {V(x, y, z) : x \in Coords, y \in -1..1, z \in -1..0}

\* result objects handed to intersectsTriangle: a fresh one, one holding an earlier hit
ResultObjects ==
    { createIntersectsTriangleResult,
      [fraction |-> Half, hit |-> TRUE, frontFacing |-> TRUE] }

RayIntersectsTriangle ==
    /\ call = NoCall
    /\ \E o \in RayOrigins, d \in Directions, len \in Lengths, t \in RayTriangles,
          cull \in BOOLEAN, r \in ResultObjects :
        LET ray == [origin |-> o, direction |-> d, length |-> len]
        IN  /\ call' = [op |-> "raycast3.intersectsTriangle", before |-> r, ray |-> ray,
                        triangle |-> t, backfaceCulling |-> cull]
            /\ res' = raycast3_intersectsTriangle(r, ray, t[1], t[2], t[3], cull)
            /\ UNCHANGED <<ret, written, obb, steps, scratch>>

NextRayTri == RayIntersectsTriangle

SpecRayTri == InitIdle /\ [][NextRayTri]_vars

TriCall == call.op = "raycast3.intersectsTriangle"

\* dot(direction, (b - a) x (c - a)) of the last intersectsTriangle call
CallDdN ==
    vec3_dot(call.ray.direction,
             vec3_cross(vec3_subtract(call.triangle[2], call.triangle[1]),
                        vec3_subtract(call.triangle[3], call.triangle[1])))

\* what the same call writes with backfaceCulling = false
Unculled ==
    raycast3_intersectsTriangle(call.before, call.ray, call.triangle[1],
                                call.triangle[2], call.triangle[3], FALSE)

\* C5: with backfaceCulling a ray with dot(direction, normal) > 0 misses, and
\* every other ray gets the result of the call without culling; so a hit
\* under culling is front facing and a backface hit is not front facing.
C5_CullingOnlyDropsBackfaces ==
    TriCall =>
        /\ (call.backfaceCulling /\ Gt(CallDdN, Zero)) => res.hit = FALSE
        /\ (call.backfaceCulling /\ ~Gt(CallDdN, Zero)) => res = Unculled
        /\ (call.backfaceCulling /\ res.hit) => res.frontFacing
        /\ (~call.backfaceCulling /\ res.hit /\ Gt(CallDdN, Zero)) => ~res.frontFacing

C5_Witness ==
    /\ TriCall /\ call.backfaceCulling /\ Gt(CallDdN, Zero)
    /\ Unculled.hit /\ ~Unculled.frontFacing /\ ~res.hit

\* the parameter t at which origin + t * direction meets the triangle's plane
CallHitDistance ==
    LET n == vec3_cross(vec3_subtract(call.triangle[2], call.triangle[1]),
                        vec3_subtract(call.triangle[3], call.triangle[1]))
    IN  Div(vec3_dot(vec3_subtract(call.triangle[1], call.ray.origin), n), CallDdN)

\* C6: on a hit, 0 <= fraction <= 1 and fraction = t / ray.length, for every
\* ray of length >= 0.
C6_FractionInUnitInterval ==
    (TriCall /\ res.hit) =>
        /\ Le(Zero, res.fraction) /\ Le(res.fraction, One)
        /\ Eq(res.fraction, Div(CallHitDistance, call.ray.length))

\* C14: when dot(direction, (b - a) x (c - a)) = 0 (ray parallel to or in the
\* plane, degenerate triangle, zero direction) the result has hit = false,
\* with and without backface culling, for every origin and length.
C14_ParallelRayMisses ==
    (TriCall /\ Eq(CallDdN, Zero)) => res.hit = FALSE

\* a ray in the plane z = 0 of a triangle it runs through, written to a
\* result object that held a hit
C14_Witness ==
    /\ TriCall /\ Eq(CallDdN, Zero)
    /\ call.triangle = <<V(-2, -2, 0), V(2, -2, 0), V(0, 2, 0)>>
    /\ call.ray.origin = V(-1, 0, 0)
    /\ call.ray.direction = V(1, 0, 0)
    /\ call.before.hit = TRUE
    /\ res.hit = FALSE

\* what the call writes for the triangle with its winding reversed: (a, c, b)
Reversed ==
    raycast3_intersectsTriangle(call.before, call.ray, call.triangle[1],
                                call.triangle[3], call.triangle[2],
                                call.backfaceCulling)

\* C29: without backface culling the calls on (a, b, c) and on (a, c, b)
\* report the same hit and the same fraction, and when they hit their
\* frontFacing flags are opposite.
C29_WindingOnlyFlipsFacing ==
    (TriCall /\ ~call.backfaceCulling) =>
        LET rev == Reversed
        IN  /\ rev.hit = res.hit
            /\ rev.fraction = res.fraction
            /\ res.hit => rev.frontFacing # res.frontFacing

\* a back-face hit at a fraction strictly between 0 and 1 that the reversed
\* triangle reports as a front-face hit
C29_Witness ==
    /\ TriCall /\ ~call.backfaceCulling
    /\ call.triangle = BackTriangle
    /\ res.hit /\ ~res.frontFacing
    /\ Lt(Zero, res.fraction) /\ Lt(res.fraction, One)
    /\ Reversed.hit /\ Reversed.frontFacing

\* the last call in terms of the geometry: the normal n = (b - a) x (c - a),
\* the distance t at which the ray meets the triangle's plane, the point
\* P = origin + t * direction, and the coordinates u, v of
\* P - a = u * (b - a) + v * (c - a)
CallGeometry ==
    LET a == call.triangle[1]
        e1 == vec3_subtract(call.triangle[2], a)
        e2 == vec3_subtract(call.triangle[3], a)
        n == vec3_cross(e1, e2)
        nn == vec3_dot(n, n)
        DdN == vec3_dot(call.ray.direction, n)
        t == Div(vec3_dot(vec3_subtract(a, call.ray.origin), n), DdN)
        Pa == vec3_subtract(vec3_add(call.ray.origin, vec3_scale(call.ray.direction, t)), a)
    IN  [ DdN |-> DdN, t |-> t,
          u |-> Div(vec3_dot(vec3_cross(Pa, e2), n), nn),
          v |-> Div(vec3_dot(vec3_cross(e1, Pa), n), nn) ]

\* the five miss paths, for the geometry g of the call
CulledBackface(g) == call.backfaceCulling /\ Gt(g.DdN, Zero)
ParallelRay(g) == Eq(g.DdN, Zero)
OutsideTriangle(g) ==
    /\ ~CulledBackface(g) /\ ~ParallelRay(g)
    /\ Lt(g.u, Zero) \/ Lt(g.v, Zero) \/ Gt(Add(g.u, g.v), One)
BehindOrigin(g) == ~CulledBackface(g) /\ ~ParallelRay(g) /\ Lt(g.t, Zero)
BeyondLength(g) == ~CulledBackface(g) /\ ~ParallelRay(g) /\ Gt(g.t, call.ray.length)
MissPath(g) ==
    \/ CulledBackface(g) \/ ParallelRay(g)
    \/ OutsideTriangle(g) \/ BehindOrigin(g) \/ BeyondLength(g)

----------------------------------------------------------------------------
(* obb3.intersectsOBB3 *)

\* rotations with rational entries: by 90 degrees about z and about y, and
\* by the angle with cosine 3/5 and sine 4/5 about z
RotZ90 == <<Zero, One, Zero, Neg(One), Zero, Zero, Zero, Zero, One>>
RotY90 == <<Zero, Zero, Neg(One), Zero, One, Zero, One, Zero, Zero>>
RotZ345 == <<Rat(3, 5), Rat(4, 5), Zero, Rat(-4, 5), Rat(3, 5), Zero, Zero, Zero, One>>
ObbRotations == {mat3_create, RotZ90, RotY90, RotZ345}

ObbHalfExtents == {<<One, One, One>>, <<Half, Half, Half>>, <<One, I(2), Half>>}
ObbCenters == {<<Rat(3 * x, 2), Rat(3 * y, 2), Rat(3 * z, 2)>> : x, y \in Coords, z \in 0..1}

Obb(c, h, r) == [center |-> c, halfExtents |-> h, rotation |-> r]

\* an OBB at the origin against an OBB anywhere
GeneralPairs ==
    {<<Obb(V(0, 0, 0), ha, ra), Obb(cb, hb, rb)>> :
        ha \in {<<One, One, One>>, <<One, I(2), Half>>}, ra \in ObbRotations,
        cb \in ObbCenters, hb \in ObbHalfExtents, rb \in ObbRotations}

\* two cubes of half-extent h with identity rotation, the second moved by d
\* along one axis; d = 0, h, 2h + (k/2) * h * Number.EPSILON and 2h + 1
MaxGap == 17
CubeHalfExtents == {Rat(1, 4), One, I(2)}
Gaps(h) ==
    {Zero, h, Add(Add(h, h), One)}
        \cup {Add(Add(h, h), Mul(Mul(Rat(k, 2), h), Number_EPSILON)) : k \in 0..MaxGap}
Along(axis, d) == [i \in 1..3 |-> IF i = axis THEN d ELSE Zero]
AlignedCubePairs ==
    UNION {{<<Obb(V(0, 0, 0), <<h, h, h>>, mat3_create),
              Obb(Along(axis, d), <<h, h, h>>, mat3_create)>> :
                axis \in 1..3, d \in Gaps(h)} : h \in CubeHalfExtents}

ObbPairs == GeneralPairs \cup AlignedCubePairs

\* the epsilon argument; the default parameter value is Number.EPSILON
Epsilons == {Zero, Number_EPSILON}

ObbIntersectsOBB3 ==
    /\ call = NoCall
    /\ \E p \in ObbPairs, eps \in Epsilons :
        /\ call' = [op |-> "obb3.intersectsOBB3", a |-> p[1], b |-> p[2], epsilon |-> eps]
        /\ Returns(obb3_intersectsOBB3(p[1], p[2], eps))
        /\ UNCHANGED <<obb, res, steps, scratch>>

NextOBBPair == ObbIntersectsOBB3

SpecOBBPair == InitIdle /\ [][NextOBBPair]_vars

\* the last call was intersectsOBB3 on two aligned cubes, with the default epsilon
AlignedCubeCall ==
    /\ call.op = "obb3.intersectsOBB3"
    /\ <<call.a, call.b>> \in AlignedCubePairs
    /\ call.epsilon = Number_EPSILON

\* of an aligned-cube call: the half-extent h and the distance d of the centers
CallH == call.a.halfExtents[1]
CallD == Sum3(call.b.center[1], call.b.center[2], call.b.center[3])

\* C3 as stated: aligned cubes at distance d = 2h intersect, and they do not
\* intersect at any distance d > 2h + epsilon (default epsilon).
C3_TouchingTrueBeyondEpsilonFalse ==
    AlignedCubeCall =>
        /\ Eq(CallD, Add(CallH, CallH)) => ret = TRUE
        /\ Gt(CallD, Add(Add(CallH, CallH), Number_EPSILON)) => ret = FALSE

\* C3 amended: aligned cubes at distance d intersect for every d <= 2h
\* (touching included) and do not for any d >= 2h + 8 * h * epsilon, epsilon
\* the default one.
C3_TouchingTrueWellBeyondFalse ==
    AlignedCubeCall =>
        /\ Le(CallD, Add(CallH, CallH)) => ret = TRUE
        /\ Ge(CallD, Add(Add(CallH, CallH), Mul(Mul(I(8), CallH), Number_EPSILON)))
                => ret = FALSE

\* touching cubes reported as intersecting
C3_Witness ==
    AlignedCubeCall /\ Eq(CallD, Add(CallH, CallH)) /\ ret = TRUE /\ CallH = One

\* C10: intersectsOBB3(a, b, epsilon) = intersectsOBB3(b, a, epsilon) for
\* OBBs with orthonormal rotations, half-extents >= 0 and epsilon >= 0.
C10_IntersectsOBB3Symmetric ==
    call.op = "obb3.intersectsOBB3" =>
        ret = obb3_intersectsOBB3(call.b, call.a, call.epsilon)

\* differently rotated boxes of different sizes, found separated
C10_Witness ==
    /\ call.op = "obb3.intersectsOBB3"
    /\ call.a.rotation # call.b.rotation
    /\ call.a.halfExtents # call.b.halfExtents
    /\ call.b.rotation = RotZ345
    /\ ret = FALSE

----------------------------------------------------------------------------
(* obb3 mutators: a sequence of at most MaxOps calls on one OBB3 object *)

MaxOps == 2

\* the Mat4 with linear part r * diag(s) and translation t
Affine(r, s, t) ==
    << Mul(r[1], s[1]), Mul(r[2], s[1]), Mul(r[3], s[1]), Zero,
       Mul(r[4], s[2]), Mul(r[5], s[2]), Mul(r[6], s[2]), Zero,
       Mul(r[7], s[3]), Mul(r[8], s[3]), Mul(r[9], s[3]), Zero,
       t[1], t[2], t[3], One >>

PureRotationMatrices ==
    {Affine(r, V(1, 1, 1), V(0, 0, 0)) : r \in {RotZ90, RotY90, RotZ345}}

\* x' = x + 3y, y' = 4y, z' = z: invertible, its columns are not orthogonal
ShearMatrix ==
    Affine(<<One, Zero, Zero, I(3), I(4), Zero, Zero, Zero, One>>, V(1, 1, 1), V(0, 0, 0))

\* rotations, a translation, a scaling, two reflections, a rotation with
\* scaling and translation, and a shear
ObbMatrices ==
    PureRotationMatrices \cup
    { Affine(mat3_create, V(1, 1, 1), V(1, 0, -1)),
      Affine(mat3_create, V(2, 1, 3), V(0, 0, 0)),
      Affine(mat3_create, V(-1, 1, 1), V(0, 0, 0)),
      Affine(mat3_create, V(1, -2, 1), V(0, 1, 0)),
      Affine(RotZ90, V(2, 1, 1), V(1, 0, 0)),
      ShearMatrix }

\* unit quaternions <<x, y, z, w>>
UnitQuaternions ==
    { <<Zero, Zero, Zero, One>>,
      <<Zero, Zero, Rat(3, 5), Rat(4, 5)>>,
      <<Half, Half, Half, Half>> }

\* boxes in the <<min, max>> layout setFromBox3 reads; the last is the empty box
ObbBoxes ==
    { <<V(-1, -1, -1), V(1, 1, 1)>>,
      <<V(0, 1, -2), V(2, 2, 1)>>,
      <<<<PosInf, PosInf, PosInf>>, <<NegInf, NegInf, NegInf>>>> }

ObbSources == {obb3_create, Obb(V(1, 2, 3), <<One, I(2), Half>>, RotY90)}
SetCenters == {V(0, 0, 0), V(1, -1, 2)}
SetHalfExtents == {<<One, One, One>>, <<Zero, I(2), Half>>}

ObbCopy ==
    /\ steps < MaxOps
    /\ \E a \in ObbSources :
        /\ call' = [op |-> "obb3.copy", before |-> obb, a |-> a]
        /\ obb' = obb3_copy(obb, a)
    /\ steps' = steps + 1
    /\ UNCHANGED <<ret, written, res, scratch>>

ObbSet ==
    /\ steps < MaxOps
    /\ \E c \in SetCenters, h \in SetHalfExtents, r \in ObbRotations :
        /\ call' = [op |-> "obb3.set", before |-> obb, center |-> c,
                    halfExtents |-> h, rotation |-> r]
        /\ obb' = obb3_set(obb, c, h, r)
    /\ steps' = steps + 1
    /\ UNCHANGED <<ret, written, res, scratch>>

ObbSetFromCenterHalfExtentsQuaternion ==
    /\ steps < MaxOps
    /\ \E c \in SetCenters, h \in SetHalfExtents, q \in UnitQuaternions :
        /\ call' = [op |-> "obb3.setFromCenterHalfExtentsQuaternion", before |-> obb,
                    center |-> c, halfExtents |-> h, quaternion |-> q]
        /\ obb' = obb3_setFromCenterHalfExtentsQuaternion(obb, c, h, q)
    /\ steps' = steps + 1
    /\ UNCHANGED <<ret, written, res, scratch>>

ObbSetFromBox3 ==
    /\ steps < MaxOps
    /\ \E aabb \in ObbBoxes :
        /\ call' = [op |-> "obb3.setFromBox3", before |-> obb, aabb |-> aabb]
        /\ obb' = obb3_setFromBox3(obb, aabb)
    /\ steps' = steps + 1
    /\ UNCHANGED <<ret, written, res, scratch>>

\* applyMatrix4(obb, obb, matrix): the object is transformed in place
ObbApplyMatrix4 ==
    /\ steps < MaxOps
    /\ \E m \in ObbMatrices :
        /\ call' = [op |-> "obb3.applyMatrix4", before |-> obb, matrix |-> m]
        /\ obb' = obb3_applyMatrix4(obb, obb, m)
    /\ steps' = steps + 1
    /\ UNCHANGED <<ret, written, res, scratch>>

NextOBB ==
    \/ ObbCopy
    \/ ObbSet
    \/ ObbSetFromCenterHalfExtentsQuaternion
    \/ ObbSetFromBox3
    \/ ObbApplyMatrix4

SpecOBB == InitIdle /\ [][NextOBB]_vars

ApplyCall == call.op = "obb3.applyMatrix4"

\* the linear part of the Mat4 m applied to the vector v
Linear(m, v) ==
    << Sum3(Mul(m[1], v[1]), Mul(m[5], v[2]), Mul(m[9], v[3])),
       Sum3(Mul(m[2], v[1]), Mul(m[6], v[2]), Mul(m[10], v[3])),
       Sum3(Mul(m[3], v[1]), Mul(m[7], v[2]), Mul(m[11], v[3])) >>

\* the Mat3 r applied to the vector v
Rotate(r, v) ==
    << Sum3(Mul(r[1], v[1]), Mul(r[4], v[2]), Mul(r[7], v[3])),
       Sum3(Mul(r[2], v[1]), Mul(r[5], v[2]), Mul(r[8], v[3])),
       Sum3(Mul(r[3], v[1]), Mul(r[6], v[2]), Mul(r[9], v[3])) >>

\* column i of M * R and of R * M, for the matrix M and the rotation R of
\* the OBB before the last applyMatrix4 call
ColMR(i) == Linear(call.matrix, Col(call.before.rotation, i))
ColRM(i) == Rotate(call.before.rotation, Linear(call.matrix, Along(i, One)))

\* C7: for a pure-rotation matrix M and an OBB with rotation R, column i of
\* the rotation after applyMatrix4 is M applied to column i of R, and the
\* new rotation is not R * M when R and M do not commute.
C7_ExtractedRotationAppliedAfter ==
    (ApplyCall /\ call.matrix \in PureRotationMatrices) =>
        /\ \A i \in 1..3 : Col(obb.rotation, i) = ColMR(i)
        /\ (\E i \in 1..3 : ColMR(i) # ColRM(i)) =>
                (\E i \in 1..3 : Col(obb.rotation, i) # ColRM(i))

\* a rotation applied to an OBB whose rotation does not commute with it
C7_Witness ==
    /\ ApplyCall /\ call.matrix \in PureRotationMatrices
    /\ \E i \in 1..3 : ColMR(i) # ColRM(i)
    /\ \A i \in 1..3 : Col(obb.rotation, i) = ColMR(i)

\* C8: after applyMatrix4 with an affine matrix M the center is
\* M * (center, 1): the linear part of M applied to the old center, plus
\* the translation of M.
C8_CenterThroughFullMatrix ==
    ApplyCall =>
        LET moved == Linear(call.matrix, call.before.center)
        IN  obb.center = << Add(moved[1], call.matrix[13]),
                            Add(moved[2], call.matrix[14]),
                            Add(moved[3], call.matrix[15]) >>

\* a center that the linear part of the matrix moves
C8_Witness ==
    /\ ApplyCall
    /\ \A i \in 1..3 : IsFinite(call.before.center[i])
    /\ Linear(call.matrix, call.before.center) # call.before.center
    /\ call.matrix[13] # Zero
    /\ obb.center # obb3_transformCenter_translated(call.before.center, call.matrix)

\* the columns of r are unit vectors, mutually orthogonal and right-handed
Orthonormal(r) ==
    /\ \A i \in 1..3 : Eq(vec3_dot(Col(r, i), Col(r, i)), One)
    /\ \A i, j \in 1..3 : i # j => Eq(vec3_dot(Col(r, i), Col(r, j)), Zero)
    /\ LET n == vec3_cross(Col(r, 1), Col(r, 2))
       IN  \A k \in 1..3 : Eq(n[k], Col(r, 3)[k])

\* C9: after any sequence of copy, set, setFromCenterHalfExtentsQuaternion,
\* setFromBox3 and applyMatrix4 (invertible affine matrix) from create(), the
\* rotation is orthonormal and right-handed and every half-extent is >= 0.
C9_OrthonormalNonNegative ==
    /\ Orthonormal(obb.rotation)
    /\ \A i \in 1..3 : Ge(obb.halfExtents[i], Zero)

----------------------------------------------------------------------------
(* obb3.intersectsBox3 *)

EmptyAabb == <<<<PosInf, PosInf, PosInf>>, <<NegInf, NegInf, NegInf>>>>

ObbIntersectsBox3 ==
    /\ call = NoCall
    /\ \E c \in ObbCenters, h \in ObbHalfExtents, r \in ObbRotations, aabb \in ObbBoxes :
        /\ call' = [op |-> "obb3.intersectsBox3", obb |-> Obb(c, h, r), aabb |-> aabb]
        /\ Returns(obb3_intersectsBox3(Obb(c, h, r), aabb))
        /\ UNCHANGED <<obb, res, steps, scratch>>

NextOBBBox == ObbIntersectsBox3

SpecOBBBox == InitIdle /\ [][NextOBBBox]_vars

\* C11: obb3.intersectsBox3 answers false for every OBB when the box is the
\* empty AABB (min = +inf, max = -inf on every axis).
C11_EmptyAabbNeverIntersects ==
    (call.op = "obb3.intersectsBox3" /\ call.aabb = EmptyAabb) => ret = FALSE

----------------------------------------------------------------------------
(* box3.transformMat4 *)

BoxMatrices == ObbMatrices \cup {Affine(mat3_create, V(1, 1, 1), V(0, 0, 0))}

BoxTransformMat4 ==
    /\ call = NoCall
    /\ \E b \in Boxes \cup {ExampleBox}, m \in BoxMatrices, same \in BOOLEAN :
        LET target == IF same THEN b ELSE UnitBox
        IN  /\ call' = [op |-> "box3.transformMat4", target |-> target, box |-> b,
                        mat |-> m, same |-> same]
            /\ Writes(box3_transformMat4(target, b, m, same))
            /\ UNCHANGED <<obb, res, steps, scratch>>

NextBoxTransform == BoxTransformMat4

SpecBoxTransform == InitIdle /\ [][NextBoxTransform]_vars

\* the 8 corners of the box of the last call, and their images M * (corner, 1)
CallCorners ==
    {<<call.box[x], call.box[y], call.box[z]>> : x \in {1, 4}, y \in {2, 5}, z \in {3, 6}}
Image(v) ==
    LET moved == Linear(call.mat, v)
    IN  << Add(moved[1], call.mat[13]), Add(moved[2], call.mat[14]),
           Add(moved[3], call.mat[15]) >>
CornerImages == {Image(v) : v \in CallCorners}

TransformCall ==
    /\ call.op = "box3.transformMat4"
    /\ ValidBox(call.box) /\ FiniteBox(call.box)
    /\ ~call.same

\* C17: for a valid finite box and an affine matrix, out not being box, each
\* min (max) component of the output is the minimum (maximum) of that
\* coordinate over the 8 corner images; the output is a valid box and
\* contains every corner image.
C17_TightBoxAroundCornerImages ==
    TransformCall =>
        /\ \A k \in 1..3 :
            /\ \E p \in CornerImages : written[k] = p[k]
            /\ \E p \in CornerImages : written[k + 3] = p[k]
            /\ \A p \in CornerImages : Le(written[k], p[k]) /\ Le(p[k], written[k + 3])
        /\ ValidBox(written)
        /\ \A p \in CornerImages : box3_containsPoint(written, p)

\* a box turned by the 3-4-5 rotation: the extremes are not the images of
\* the min and max corners
C17_Witness ==
    /\ TransformCall
    /\ call.box = ExampleBox
    /\ call.mat = Affine(RotZ345, V(1, 1, 1), V(0, 0, 0))
    /\ written[1] # Image(<<call.box[1], call.box[2], call.box[3]>>)[1]
    /\ ValidBox(written)

\* the last call was transformMat4(box, box, mat): out and box are one array
AliasedTransformCall ==
    /\ call.op = "box3.transformMat4"
    /\ call.same

\* C28: transformMat4(box, box, mat) leaves in the array the same six values
\* that transformMat4(out, box, mat) writes to a separate out array.
C28_AliasedTransformWritesSameValues ==
    AliasedTransformCall =>
        written = box3_transformMat4(UnitBox, call.box, call.mat, FALSE)

----------------------------------------------------------------------------
(* obb3 point queries: an OBB3 object is set up by set or setFromBox3,      *)
(* optionally transformed by applyMatrix4, and then queried                 *)

\* the <<min, max>> layout of a flat Box3 and back
Nested(b) == <<<<b[1], b[2], b[3]>>, <<b[4], b[5], b[6]>>>>
Flat(aabb) == <<aabb[1][1], aabb[1][2], aabb[1][3], aabb[2][1], aabb[2][2], aabb[2][3]>>

PointBoxes == {Nested(b) : b \in FiniteBoxes \cup {UnitBox, UnboundedBox, HalfUnboundedBox}}
PointHalfExtents == SetHalfExtents \cup {<<PosInf, One, One>>}

\* the 8 corners of the OBB o
ObbCorners(o) ==
    { LET v == Rotate(o.rotation, << Mul(I(sx), o.halfExtents[1]),
                                     Mul(I(sy), o.halfExtents[2]),
                                     Mul(I(sz), o.halfExtents[3]) >>)
      IN  <<Add(o.center[1], v[1]), Add(o.center[2], v[2]), Add(o.center[3], v[3])>> :
        sx \in {-1, 1}, sy \in {-1, 1}, sz \in {-1, 1} }

\* the point v mapped through the affine Mat4 m
Mapped(m, v) ==
    LET moved == Linear(m, v)
    IN  <<Add(moved[1], m[13]), Add(moved[2], m[14]), Add(moved[3], m[15])>>

\* the points a query is made with: the grid points and, after applyMatrix4,
\* the mapped corners of the OBB as it was before
QueryPoints ==
    Points \cup
    (IF call.op = "obb3.applyMatrix4"
     THEN {Mapped(call.matrix, v) : v \in ObbCorners(call.before)}
     ELSE {})

SetUp == call.op \in {"obb3.set", "obb3.setFromBox3", "obb3.applyMatrix4"}

PointObbSet ==
    /\ call = NoCall
    /\ \E c \in SetCenters, h \in PointHalfExtents, r \in ObbRotations :
        /\ call' = [op |-> "obb3.set", before |-> obb, center |-> c,
                    halfExtents |-> h, rotation |-> r]
        /\ obb' = obb3_set(obb, c, h, r)
    /\ UNCHANGED <<ret, written, res, steps, scratch>>

PointObbSetFromBox3 ==
    /\ call = NoCall
    /\ \E aabb \in PointBoxes :
        /\ call' = [op |-> "obb3.setFromBox3", before |-> obb, aabb |-> aabb]
        /\ obb' = obb3_setFromBox3(obb, aabb)
    /\ UNCHANGED <<ret, written, res, steps, scratch>>

PointObbApplyMatrix4 ==
    /\ call.op = "obb3.set"
    /\ \E m \in ObbMatrices :
        /\ call' = [op |-> "obb3.applyMatrix4", before |-> obb, matrix |-> m]
        /\ obb' = obb3_applyMatrix4(obb, obb, m)
    /\ UNCHANGED <<ret, written, res, steps, scratch>>

ObbContainsPoint ==
    /\ SetUp
    /\ \E p \in QueryPoints :
        /\ call' = [op |-> "obb3.containsPoint", obb |-> obb, point |-> p, after |-> call]
        /\ Returns(obb3_containsPoint(obb, p))
    /\ UNCHANGED <<obb, res, steps, scratch>>

ObbClampPoint ==
    /\ SetUp
    /\ \E p \in QueryPoints :
        /\ call' = [op |-> "obb3.clampPoint", obb |-> obb, point |-> p, after |-> call]
        /\ Writes(obb3_clampPoint(V(0, 0, 0), obb, p))
    /\ UNCHANGED <<obb, res, steps, scratch>>

NextOBBPoint ==
    \/ PointObbSet
    \/ PointObbSetFromBox3
    \/ PointObbApplyMatrix4
    \/ ObbContainsPoint
    \/ ObbClampPoint

SpecOBBPoint == InitIdle /\ [][NextOBBPoint]_vars

FiniteVec(v) == \A i \in 1..3 : IsFinite(v[i])

\* the last call was clampPoint on an OBB with orthonormal rotation and
\* non-negative half-extents
ClampCall ==
    /\ call.op = "obb3.clampPoint"
    /\ Orthonormal(call.obb.rotation)
    /\ \A i \in 1..3 : Ge(call.obb.halfExtents[i], Zero)

\* the clamped point is contained, and is the point itself if that was contained
ClampedIsContained ==
    /\ obb3_containsPoint(call.obb, written)
    /\ obb3_containsPoint(call.obb, call.point) => written = call.point

\* C21 as stated: for every OBB with orthonormal rotation and non-negative
\* half-extents and every point p, clampPoint returns a point q that
\* containsPoint accepts, and q = p whenever containsPoint already accepts p.
C21_ClampedPointIsContained == ClampCall => ClampedIsContained

\* C21 amended: the same for every such OBB with a finite center and every
\* finite point (the half-extents may be infinite).
C21_ClampedPointOfFiniteCenter ==
    (ClampCall /\ FiniteVec(call.obb.center) /\ FiniteVec(call.point)) => ClampedIsContained

\* a point outside a rotated OBB is moved onto it
C21_Witness ==
    /\ ClampCall /\ FiniteVec(call.obb.center)
    /\ call.obb.rotation = RotZ345
    /\ ~obb3_containsPoint(call.obb, call.point)
    /\ written # call.point
    /\ obb3_containsPoint(call.obb, written)

\* the last call was containsPoint on the OBB that setFromBox3 made of a valid box
FromBoxCall ==
    /\ call.op = "obb3.containsPoint"
    /\ call.after.op = "obb3.setFromBox3"
    /\ ValidBox(Flat(call.after.aabb))

SameAsBox == ret <=> box3_containsPoint(Flat(call.after.aabb), call.point)

\* C25 as stated: for every valid box and every point p,
\* obb3.containsPoint(obb3.setFromBox3(out, box), p) = box3.containsPoint(box, p).
C25_ObbFromBoxContainsSamePoints == FromBoxCall => SameAsBox

\* C25 amended: the same for every valid box with finite components.
C25_ObbFromFiniteBoxContainsSamePoints ==
    (FromBoxCall /\ FiniteBox(Flat(call.after.aabb))) => SameAsBox

\* a point on the boundary of the unit box, found in the OBB made of it
C25_Witness ==
    /\ FromBoxCall /\ call.after.aabb = Nested(UnitBox)
    /\ call.point = V(1, 0, 1)
    /\ ret = TRUE

\* matrices composed of a translation, a rotation and a per-axis non-zero scale
ComposedMatrices == ObbMatrices \ {ShearMatrix}

\* the last call was containsPoint on the OBB that applyMatrix4 made of an OBB
\* with orthonormal rotation and finite half-extents, asked about a corner of
\* that OBB mapped through the matrix
MappedCornerCall ==
    /\ call.op = "obb3.containsPoint"
    /\ call.after.op = "obb3.applyMatrix4"
    /\ call.after.matrix \in ComposedMatrices
    /\ Orthonormal(call.after.before.rotation)
    /\ FiniteVec(call.after.before.halfExtents)
    /\ call.point \in {Mapped(call.after.matrix, v) : v \in ObbCorners(call.after.before)}

\* C27: for every OBB with orthonormal rotation and every matrix composed of
\* a translation, a rotation and a per-axis non-zero scale, each of the 8
\* corners of the input OBB, mapped through the matrix, satisfies
\* containsPoint of the OBB applyMatrix4 produced.
C27_MappedCornersContained == MappedCornerCall => ret = TRUE

----------------------------------------------------------------------------
(* Scratch storage.  Each operation below is the function of the same name  *)
(* with its module-level buffers made explicit: it takes the buffers s as   *)
(* the previous calls left them and yields the buffers after the call and   *)
(* the value the call returns or writes to out.  A statement of the source  *)
(* that reads a buffer reads the record of the buffers at that point.       *)

Outcome(s, v) == [scratch |-> s, value |-> v]

\* F applied to the value of x: the statements of a function run one after
\* the other, each on the buffers as the statement before it left them
Then(x, F(_)) == CHOOSE r \in {F(v) : v \in {x}} : TRUE

box3_setFromCenterAndSize_run(s, center, size) ==
    LET s1 == [s EXCEPT !.setFromCenterAndSize_halfSize = vec3_scale(size, Half)]
        halfSize == s1.setFromCenterAndSize_halfSize
        s2 == [s1 EXCEPT !.setFromCenterAndSize_min = vec3_subtract(center, halfSize)]
        s3 == [s2 EXCEPT !.setFromCenterAndSize_max = vec3_add(center, halfSize)]
    IN  Outcome(s3, << s3.setFromCenterAndSize_min[1], s3.setFromCenterAndSize_min[2],
                       s3.setFromCenterAndSize_min[3], s3.setFromCenterAndSize_max[1],
                       s3.setFromCenterAndSize_max[2], s3.setFromCenterAndSize_max[3] >>)

\* iteration i of the loop of transformMat4 on the pair st = (buffers, out)
box3_transformMat4_step(st, box, mat, i) ==
    LET s1 == [st.scratch EXCEPT !.transformMat4_corner =
                  << IF i % 2 = 0 THEN box[1] ELSE box[4],
                     IF (i \div 2) % 2 = 0 THEN box[2] ELSE box[5],
                     IF (i \div 4) % 2 = 0 THEN box[3] ELSE box[6] >>]
        s2 == [s1 EXCEPT !.transformMat4_corner = vec3_transformMat4(s1.transformMat4_corner, mat)]
        corner == s2.transformMat4_corner
        o == st.value
    IN  Outcome(s2, << IF Lt(corner[1], o[1]) THEN corner[1] ELSE o[1],
                       IF Lt(corner[2], o[2]) THEN corner[2] ELSE o[2],
                       IF Lt(corner[3], o[3]) THEN corner[3] ELSE o[3],
                       IF Gt(corner[1], o[4]) THEN corner[1] ELSE o[4],
                       IF Gt(corner[2], o[5]) THEN corner[2] ELSE o[5],
                       IF Gt(corner[3], o[6]) THEN corner[3] ELSE o[6] >>)

RECURSIVE box3_transformMat4_loop(_, _, _, _)
box3_transformMat4_loop(st, box, mat, i) ==
    IF i > 7 THEN st
    ELSE CHOOSE r \in {box3_transformMat4_loop(box3_transformMat4_step(x, box, mat, i),
                                               box, mat, i + 1) : x \in {st}} : TRUE

box3_transformMat4_run(s, box, mat) ==
    box3_transformMat4_loop(Outcome(s, box3_create), box, mat, 0)

\* "vec3.cross(_triangleNormal, _f0, _f1); _axisTriangle[k] = _triangleNormal[k]"
box3_storeTriangleAxis(s) ==
    LET s1 == [s EXCEPT !.triangleNormal = vec3_cross(s.f0, s.f1)]
    IN  [s1 EXCEPT !.axisTriangle = <<s1.triangleNormal[1], s1.triangleNormal[2],
                                      s1.triangleNormal[3]>>]

\* _satForAxes reads _v0, _v1, _v2 and _extents from the buffers
box3_satForAxes_run(s, axes) == box3_satForAxes(axes, s.v0, s.v1, s.v2, s.extents)

box3_intersectsTriangle3_run(s, box, a, b, c) ==
    LET axesBoxFaces == << <<One, Zero, Zero>>, <<Zero, One, Zero>>, <<Zero, Zero, One>> >>
    IN  IF Gt(box[1], box[4]) \/ Gt(box[2], box[5]) \/ Gt(box[3], box[6])
        THEN Outcome(s, FALSE)
        ELSE
        Then([s EXCEPT !.center = << Mul(Add(box[1], box[4]), Half),
                                     Mul(Add(box[2], box[5]), Half),
                                     Mul(Add(box[3], box[6]), Half) >>], LAMBDA s1 :
        Then([s1 EXCEPT !.extents = << Sub(box[4], s1.center[1]),
                                       Sub(box[5], s1.center[2]),
                                       Sub(box[6], s1.center[3]) >>], LAMBDA s2 :
        Then([s2 EXCEPT !.v0 = vec3_subtract(a, s2.center),
                        !.v1 = vec3_subtract(b, s2.center),
                        !.v2 = vec3_subtract(c, s2.center)], LAMBDA s3 :
        Then([s3 EXCEPT !.f0 = vec3_subtract(s3.v1, s3.v0),
                        !.f1 = vec3_subtract(s3.v2, s3.v1),
                        !.f2 = vec3_subtract(s3.v0, s3.v2)], LAMBDA s4 :
        Then([s4 EXCEPT !.axesCross =
                  << <<Zero, Neg(s4.f0[3]), s4.f0[2]>>,
                     <<Zero, Neg(s4.f1[3]), s4.f1[2]>>,
                     <<Zero, Neg(s4.f2[3]), s4.f2[2]>>,
                     <<s4.f0[3], Zero, Neg(s4.f0[1])>>,
                     <<s4.f1[3], Zero, Neg(s4.f1[1])>>,
                     <<s4.f2[3], Zero, Neg(s4.f2[1])>>,
                     <<Neg(s4.f0[2]), s4.f0[1], Zero>>,
                     <<Neg(s4.f1[2]), s4.f1[1], Zero>>,
                     <<Neg(s4.f2[2]), s4.f2[1], Zero>> >>], LAMBDA s5 :
            IF ~box3_satForAxes_run(s5, s5.axesCross) THEN Outcome(s5, FALSE)
            ELSE IF ~box3_satForAxes_run(s5, axesBoxFaces) THEN Outcome(s5, FALSE)
            ELSE Then(box3_storeTriangleAxis(s5), LAMBDA s6 :
                     Outcome(s6, box3_satForAxes_run(s6, <<s6.axisTriangle>>))))))))

box3_intersectsSphere_run(s, box, sphere) ==
    LET s1 == [s EXCEPT !.closestPoint = << box3_closest(box, sphere.center, 1),
                                            box3_closest(box, sphere.center, 2),
                                            box3_closest(box, sphere.center, 3) >>]
        dx == Sub(s1.closestPoint[1], sphere.center[1])
        dy == Sub(s1.closestPoint[2], sphere.center[2])
        dz == Sub(s1.closestPoint[3], sphere.center[3])
    IN  Outcome(s1, Le(Add(Add(Mul(dx, dx), Mul(dy, dy)), Mul(dz, dz)),
                       Mul(sphere.radius, sphere.radius)))

obb3_containsPoint_run(s, o, point) ==
    LET s1 == [s EXCEPT !.containsPoint_localPoint =
                  << obb3_localCoordinate(o, point, 1), obb3_localCoordinate(o, point, 2),
                     obb3_localCoordinate(o, point, 3) >>]
        local == s1.containsPoint_localPoint
    IN  Outcome(s1, /\ Le(Abs(local[1]), o.halfExtents[1])
                    /\ Le(Abs(local[2]), o.halfExtents[2])
                    /\ Le(Abs(local[3]), o.halfExtents[3]))

obb3_clampPoint_run(s, o, point) ==
    LET s1 == [s EXCEPT !.clampPoint_xAxis = Col(o.rotation, 1),
                        !.clampPoint_yAxis = Col(o.rotation, 2),
                        !.clampPoint_zAxis = Col(o.rotation, 3)]
        d == vec3_subtract(point, o.center)
        clamped(axis, i) ==
            Max(Neg(o.halfExtents[i]), Min(o.halfExtents[i], vec3_dot(d, axis)))
        q0 == <<o.center[1], o.center[2], o.center[3]>>
        q1 == vec3_add(q0, vec3_scale(s1.clampPoint_xAxis, clamped(s1.clampPoint_xAxis, 1)))
        q2 == vec3_add(q1, vec3_scale(s1.clampPoint_yAxis, clamped(s1.clampPoint_yAxis, 2)))
        q3 == vec3_add(q2, vec3_scale(s1.clampPoint_zAxis, clamped(s1.clampPoint_zAxis, 3)))
    IN  Outcome(s1, q3)

obb3_intersectsOBB3_run(s, a, b, epsilon) ==
    Then([s EXCEPT !.intersectsOBB3_aU = [i \in 1..3 |-> Col(a.rotation, i)],
                   !.intersectsOBB3_bU = [i \in 1..3 |-> Col(b.rotation, i)]], LAMBDA s1 :
    Then([s1 EXCEPT !.intersectsOBB3_R =
              [i \in 1..3 |-> [j \in 1..3 |->
                  vec3_dot(s1.intersectsOBB3_aU[i], s1.intersectsOBB3_bU[j])]]], LAMBDA s2 :
    Then([s2 EXCEPT !.intersectsOBB3_t = vec3_subtract(b.center, a.center)], LAMBDA s3 :
    Then([s3 EXCEPT !.intersectsOBB3_tInA =
              << vec3_dot(s3.intersectsOBB3_t, s3.intersectsOBB3_aU[1]),
                 vec3_dot(s3.intersectsOBB3_t, s3.intersectsOBB3_aU[2]),
                 vec3_dot(s3.intersectsOBB3_t, s3.intersectsOBB3_aU[3]) >>], LAMBDA s4 :
    Then([s4 EXCEPT !.intersectsOBB3_AbsR =
              [i \in 1..3 |-> [j \in 1..3 |->
                  Add(Abs(s4.intersectsOBB3_R[i][j]), epsilon)]]], LAMBDA s5 :
        LET R == s5.intersectsOBB3_R
            AbsR == s5.intersectsOBB3_AbsR
            tInA == s5.intersectsOBB3_tInA
        IN  Outcome(s5,
                /\ \A i \in 1..3 : ~obb3_faceASeparates(a, b, R, AbsR, tInA, i)
                /\ \A i \in 1..3 : ~obb3_faceBSeparates(a, b, R, AbsR, tInA, i)
                /\ \A i \in 0..2, j \in 0..2 :
                       ~obb3_crossAxisSeparates(a, b, R, AbsR, tInA, i, j)))))))

\* a test against the OBB the buffer held before this call converted its box
obb3_intersectsBox3_run_stale(s, o, aabb) ==
    LET s1 == [s EXCEPT !.intersectsBox3_obbFromAABB =
                  obb3_setFromBox3(s.intersectsBox3_obbFromAABB, aabb)]
    IN  obb3_intersectsOBB3_run(s1, o, s.intersectsBox3_obbFromAABB, Number_EPSILON)

obb3_intersectsBox3_run(s, o, aabb) ==
    LET s1 == [s EXCEPT !.intersectsBox3_obbFromAABB =
                  obb3_setFromBox3(s.intersectsBox3_obbFromAABB, aabb)]
    IN  obb3_intersectsOBB3_run(s1, o, s1.intersectsBox3_obbFromAABB, Number_EPSILON)

obb3_applyMatrix4_run(s, out, o, matrix) ==
    LET e == matrix
        sx0 == Sqrt(Sum3(Mul(e[1], e[1]), Mul(e[2], e[2]), Mul(e[3], e[3])))
        sy == Sqrt(Sum3(Mul(e[5], e[5]), Mul(e[6], e[6]), Mul(e[7], e[7])))
        sz == Sqrt(Sum3(Mul(e[9], e[9]), Mul(e[10], e[10]), Mul(e[11], e[11])))
        sx == IF Lt(mat4_determinant(matrix), Zero) THEN Neg(sx0) ELSE sx0
        s1 == [s EXCEPT !.applyMatrix4_rotationMat = mat3_fromMat4(matrix)]
        inv == <<Div(One, sx), Div(One, sy), Div(One, sz)>>
        s2 == [s1 EXCEPT !.applyMatrix4_rotationMat =
                  [k \in 1..9 |-> Mul(s1.applyMatrix4_rotationMat[k], inv[(k + 2) \div 3])]]
    IN  Outcome(s2,
            [out EXCEPT
                !.rotation = obb3_combineRotations(s2.applyMatrix4_rotationMat, o.rotation),
                !.halfExtents = << Mul(o.halfExtents[1], Abs(sx)),
                                   Mul(o.halfExtents[2], Abs(sy)),
                                   Mul(o.halfExtents[3], Abs(sz)) >>,
                !.center = obb3_transformCenter(o.center, matrix)])

raycast3_intersectsTriangle_run(s, out, ray, a, b, c, backfaceCulling) ==
    Then([s EXCEPT !.rayIntersectsTriangle_edge1 = vec3_subtract(b, a),
                   !.rayIntersectsTriangle_edge2 = vec3_subtract(c, a)], LAMBDA s1 :
    Then([s1 EXCEPT !.rayIntersectsTriangle_normal =
              vec3_cross(s1.rayIntersectsTriangle_edge1, s1.rayIntersectsTriangle_edge2)],
         LAMBDA s2 :
    Then(vec3_dot(ray.direction, s2.rayIntersectsTriangle_normal), LAMBDA DdN0 :
        LET sign == IF Gt(DdN0, Zero) THEN I(1) ELSE I(-1)
            DdN == IF Gt(DdN0, Zero) THEN DdN0 ELSE Neg(DdN0)
        IN
        IF raycast3_culled(DdN0, backfaceCulling) THEN Outcome(s2, raycast3_miss(out))
        ELSE IF ~Gt(DdN0, Zero) /\ ~Lt(DdN0, Zero) THEN Outcome(s2, raycast3_miss(out))
        ELSE
        Then([s2 EXCEPT !.rayIntersectsTriangle_diff = vec3_subtract(ray.origin, a)],
             LAMBDA s3 :
        Then([s3 EXCEPT !.rayIntersectsTriangle_temp =
                  vec3_cross(s3.rayIntersectsTriangle_diff, s3.rayIntersectsTriangle_edge2)],
             LAMBDA s4 :
        Then(Mul(sign, vec3_dot(ray.direction, s4.rayIntersectsTriangle_temp)),
             LAMBDA DdQxE2 :
            IF Lt(DdQxE2, Zero) THEN Outcome(s4, raycast3_miss(out))
            ELSE
            Then([s4 EXCEPT !.rayIntersectsTriangle_temp =
                      vec3_cross(s4.rayIntersectsTriangle_edge1,
                                 s4.rayIntersectsTriangle_diff)], LAMBDA s5 :
            Then(Mul(sign, vec3_dot(ray.direction, s5.rayIntersectsTriangle_temp)),
                 LAMBDA DdE1xQ :
            Then(Mul(Neg(sign), vec3_dot(s5.rayIntersectsTriangle_diff,
                                         s5.rayIntersectsTriangle_normal)), LAMBDA QdN :
                LET t == Div(QdN, DdN)
                IN  IF Lt(DdE1xQ, Zero) THEN Outcome(s5, raycast3_miss(out))
                    ELSE IF Gt(Add(DdQxE2, DdE1xQ), DdN) THEN Outcome(s5, raycast3_miss(out))
                    ELSE IF Lt(QdN, Zero) THEN Outcome(s5, raycast3_miss(out))
                    ELSE IF Le(t, ray.length)
                         THEN Outcome(s5, [out EXCEPT !.hit = TRUE,
                                                      !.fraction = Div(t, ray.length),
                                                      !.frontFacing = Lt(sign, Zero)])
                    ELSE Outcome(s5, raycast3_miss(out)))))))))))

\* a sequence of at most MaxOps calls of the operations above, each on the
\* buffers the calls before it left; call.on records those buffers

ScratchBoxes == {UnitBox, box3_create}
ScratchTriangles ==
    { <<V(0, 0, 0), V(1, 0, 0), V(0, 1, 0)>>,
      <<V(2, 2, 2), V(3, 2, 2), V(2, 3, 2)>>,
      <<V(3, 0, 0), V(0, 3, 0), V(0, 0, 3)>> }
ScratchSpheres == {[center |-> V(2, 0, 0), radius |-> One], [center |-> V(0, 3, 0), radius |-> One]}
ScratchObbs == {Obb(V(0, 0, 0), <<One, One, One>>, RotZ345), Obb(V(3, 0, 0), <<One, I(2), Half>>, RotY90)}
ScratchPoints == {V(1, 1, 0), V(2, -1, 0)}
ScratchMatrices == {Affine(RotZ90, V(2, 1, 1), V(1, 0, 0)), Affine(mat3_create, V(1, -2, 1), V(0, 1, 0))}
ScratchRays ==
    { [origin |-> V(0, 0, -1), direction |-> V(0, 0, 1), length |-> I(2)],
      [origin |-> V(0, 0, -1), direction |-> V(1, 0, 0), length |-> I(2)],
      [origin |-> V(1, 1, 1), direction |-> V(0, 0, -1), length |-> I(2)] }

Counted == steps < MaxOps /\ steps' = steps + 1

ScratchSetFromCenterAndSize ==
    /\ Counted
    /\ \E c \in ScratchPoints, size \in {V(2, 2, 2)} :
        LET r == box3_setFromCenterAndSize_run(scratch, c, size)
        IN  /\ call' = [op |-> "box3.setFromCenterAndSize", center |-> c, size |-> size,
                        on |-> scratch]
            /\ scratch' = r.scratch
            /\ Writes(r.value)
    /\ UNCHANGED <<obb, res>>

ScratchTransformMat4 ==
    /\ Counted
    /\ \E m \in ScratchMatrices :
        LET r == box3_transformMat4_run(scratch, UnitBox, m)
        IN  /\ call' = [op |-> "box3.transformMat4", box |-> UnitBox, mat |-> m, on |-> scratch]
            /\ scratch' = r.scratch
            /\ Writes(r.value)
    /\ UNCHANGED <<obb, res>>

ScratchIntersectsTriangle3 ==
    /\ Counted
    /\ \E b \in ScratchBoxes, t \in ScratchTriangles :
        LET r == box3_intersectsTriangle3_run(scratch, b, t[1], t[2], t[3])
        IN  /\ call' = [op |-> "box3.intersectsTriangle3", box |-> b, triangle |-> t,
                        on |-> scratch]
            /\ scratch' = r.scratch
            /\ Returns(r.value)
    /\ UNCHANGED <<obb, res>>

ScratchIntersectsSphere ==
    /\ Counted
    /\ \E sp \in ScratchSpheres :
        LET r == box3_intersectsSphere_run(scratch, UnitBox, sp)
        IN  /\ call' = [op |-> "box3.intersectsSphere", box |-> UnitBox, sphere |-> sp,
                        on |-> scratch]
            /\ scratch' = r.scratch
            /\ Returns(r.value)
    /\ UNCHANGED <<obb, res>>

ScratchContainsPoint ==
    /\ Counted
    /\ \E p \in ScratchPoints :
        LET r == obb3_containsPoint_run(scratch, obb, p)
        IN  /\ call' = [op |-> "obb3.containsPoint", obb |-> obb, point |-> p, on |-> scratch]
            /\ scratch' = r.scratch
            /\ Returns(r.value)
    /\ UNCHANGED <<obb, res>>

ScratchClampPoint ==
    /\ Counted
    /\ \E p \in ScratchPoints :
        LET r == obb3_clampPoint_run(scratch, obb, p)
        IN  /\ call' = [op |-> "obb3.clampPoint", obb |-> obb, point |-> p, on |-> scratch]
            /\ scratch' = r.scratch
            /\ Writes(r.value)
    /\ UNCHANGED <<obb, res>>

ScratchIntersectsOBB3 ==
    /\ Counted
    /\ \E b \in ScratchObbs :
        LET r == obb3_intersectsOBB3_run(scratch, obb, b, Number_EPSILON)
        IN  /\ call' = [op |-> "obb3.intersectsOBB3", a |-> obb, b |-> b, on |-> scratch]
            /\ scratch' = r.scratch
            /\ Returns(r.value)
    /\ UNCHANGED <<obb, res>>

ScratchIntersectsBox3 ==
    /\ Counted
    /\ \E aabb \in {Nested(UnitBox), Nested(<<I(2), I(2), I(2), I(3), I(3), I(3)>>)} :
        LET r == obb3_intersectsBox3_run(scratch, obb, aabb)
        IN  /\ call' = [op |-> "obb3.intersectsBox3", obb |-> obb, aabb |-> aabb, on |-> scratch]
            /\ scratch' = r.scratch
            /\ Returns(r.value)
    /\ UNCHANGED <<obb, res>>

\* applyMatrix4(obb, obb, matrix): the object is transformed in place
ScratchApplyMatrix4 ==
    /\ Counted
    /\ \E m \in ScratchMatrices :
        LET r == obb3_applyMatrix4_run(scratch, obb, obb, m)
        IN  /\ call' = [op |-> "obb3.applyMatrix4", before |-> obb, matrix |-> m, on |-> scratch]
            /\ scratch' = r.scratch
            /\ obb' = r.value
    /\ UNCHANGED <<ret, written, res>>

\* the result object is reused from call to call
ScratchRayIntersectsTriangle ==
    /\ Counted
    /\ \E ray \in ScratchRays, cull \in BOOLEAN :
        LET t == <<V(0, 0, 0), V(1, 0, 0), V(0, 1, 0)>>
            r == raycast3_intersectsTriangle_run(scratch, res, ray, t[1], t[2], t[3], cull)
        IN  /\ call' = [op |-> "raycast3.intersectsTriangle", out |-> res, ray |-> ray,
                        triangle |-> t, backfaceCulling |-> cull, on |-> scratch]
            /\ scratch' = r.scratch
            /\ res' = r.value
    /\ UNCHANGED <<ret, written, obb>>

NextScratch ==
    \/ ScratchSetFromCenterAndSize
    \/ ScratchTransformMat4
    \/ ScratchIntersectsTriangle3
    \/ ScratchIntersectsSphere
    \/ ScratchContainsPoint
    \/ ScratchClampPoint
    \/ ScratchIntersectsOBB3
    \/ ScratchIntersectsBox3
    \/ ScratchApplyMatrix4
    \/ ScratchRayIntersectsTriangle

SpecScratch == InitIdle /\ [][NextScratch]_vars

\* the value the last call returned or wrote
LastValue ==
    IF call.op \in {"obb3.applyMatrix4"} THEN obb
    ELSE IF call.op = "raycast3.intersectsTriangle" THEN res
    ELSE IF call.op \in {"box3.setFromCenterAndSize", "box3.transformMat4", "obb3.clampPoint"}
         THEN written
    ELSE ret

\* the last call made on the buffers s instead
Rerun(s) ==
    CASE call.op = "box3.setFromCenterAndSize" ->
            box3_setFromCenterAndSize_run(s, call.center, call.size)
      [] call.op = "box3.transformMat4" -> box3_transformMat4_run(s, call.box, call.mat)
      [] call.op = "box3.intersectsTriangle3" ->
            box3_intersectsTriangle3_run(s, call.box, call.triangle[1], call.triangle[2],
                                         call.triangle[3])
      [] call.op = "box3.intersectsSphere" -> box3_intersectsSphere_run(s, call.box, call.sphere)
      [] call.op = "obb3.containsPoint" -> obb3_containsPoint_run(s, call.obb, call.point)
      [] call.op = "obb3.clampPoint" -> obb3_clampPoint_run(s, call.obb, call.point)
      [] call.op = "obb3.intersectsOBB3" ->
            obb3_intersectsOBB3_run(s, call.a, call.b, Number_EPSILON)
      [] call.op = "obb3.intersectsBox3" -> obb3_intersectsBox3_run(s, call.obb, call.aabb)
      [] call.op = "obb3.applyMatrix4" ->
            obb3_applyMatrix4_run(s, call.before, call.before, call.matrix)
      [] call.op = "raycast3.intersectsTriangle" ->
            raycast3_intersectsTriangle_run(s, call.out, call.ray, call.triangle[1],
                                            call.triangle[2], call.triangle[3],
                                            call.backfaceCulling)

\* C22: in any sequence of calls of the operations that use module-level
\* scratch buffers, every call returns what the same call returns on freshly
\* initialised buffers.
C22_ResultsIndependentOfHistory ==
    call # NoCall => LastValue = Rerun(FreshScratch).value

\* a triangle test that passes although the call before it (separated on a
\* cross axis, or an empty box) left other vertices and another triangle axis
C22_Witness ==
    /\ call.op = "box3.intersectsTriangle3"
    /\ call.on.axisTriangle # FreshScratch.axisTriangle
    /\ call.on.v0 # scratch.v0
    /\ ret = TRUE

----------------------------------------------------------------------------
(* box3 accumulation: from create(), at most MaxOps calls of expandByPoint  *)
(* and union, each on the box the call before it wrote                      *)

ExpandPoints == {V(x, y, 0) : x \in Coords, y \in {-1, 1}} \cup {V(0, 0, 1)}
UnionBoxes ==
    { UnitBox, <<I(-1), I(-1), I(-1), I(0), I(0), I(0)>>,
      <<I(0), I(0), I(0), I(0), I(0), I(0)>>, HalfUnboundedBox }

\* the box the next call is given, and what has been added to it so far (a
\* point p counts as the box [p, p])
CurrentBox == IF call = NoCall THEN box3_create ELSE written
AddedSoFar == IF call = NoCall THEN {} ELSE call.added

BoxExpandByPoint ==
    /\ Counted
    /\ \E p \in ExpandPoints :
        /\ call' = [op |-> "box3.expandByPoint", box |-> CurrentBox, point |-> p,
                    added |-> AddedSoFar \cup {<<p[1], p[2], p[3], p[1], p[2], p[3]>>}]
        /\ Writes(box3_expandByPoint(CurrentBox, CurrentBox, p))
    /\ UNCHANGED <<obb, res, scratch>>

\* the accumulated box is passed as boxA or as boxB
BoxUnion ==
    /\ Counted
    /\ \E b \in UnionBoxes, first \in BOOLEAN :
        /\ call' = [op |-> "box3.union", box |-> CurrentBox, other |-> b,
                    added |-> AddedSoFar \cup {b}]
        /\ Writes(IF first THEN box3_union(CurrentBox, CurrentBox, b)
                           ELSE box3_union(CurrentBox, b, CurrentBox))
    /\ UNCHANGED <<obb, res, scratch>>

NextBoxGrow == BoxExpandByPoint \/ BoxUnion

SpecBoxGrow == InitIdle /\ [][NextBoxGrow]_vars

\* written[i] is the least lower bound, written[i + 3] the greatest upper
\* bound on axis i of everything added so far
TightOn(i) ==
    /\ \E b \in call.added : written[i] = b[i]
    /\ \A b \in call.added : Le(written[i], b[i])
    /\ \E b \in call.added : written[i + 3] = b[i + 3]
    /\ \A b \in call.added : Ge(written[i + 3], b[i + 3])

\* C23: after any non-empty sequence of expandByPoint (finite points) and
\* union (valid boxes) from create(), the box is valid, contains every point
\* and box added so far and is the tightest such box; one expandByPoint on
\* the empty box gives min = max = point, and the union of the empty box
\* with a valid box b gives b.
C23_AccumulatedBoxIsTight ==
    call # NoCall =>
        /\ ValidBox(written)
        /\ \A b \in call.added : box3_containsBox3(written, b)
        /\ \A i \in 1..3 : TightOn(i)
        /\ (steps = 1 /\ call.op = "box3.expandByPoint") =>
                written = << call.point[1], call.point[2], call.point[3],
                             call.point[1], call.point[2], call.point[3] >>
        /\ (steps = 1 /\ call.op = "box3.union") => written = call.other

\* a point added to a box that two earlier calls made: one bound moves
C23_Witness ==
    /\ steps = MaxOps /\ call.op = "box3.expandByPoint"
    /\ ValidBox(call.box) /\ FiniteBox(call.box)
    /\ ~box3_containsPoint(call.box, call.point)
    /\ box3_containsPoint(written, call.point)
    /\ written[4] = call.box[4] /\ written[1] # call.box[1]

----------------------------------------------------------------------------
(* plane3.intersect: the common point of three planes *)

\* a test for a denominator that is exactly zero only
plane3_degenerate_exactZero(denom) == Eq(denom, Zero)

\* "if (Math.abs(denom) < 0.000001) return false"
plane3_degenerate(denom) == Lt(Abs(denom), Rat(1, 1000000))

\* the pair of the boolean returned and the contents of out after the call
plane3_intersect(p1, p2, p3, out) ==
    LET n1 == p1.normal
        n2 == p2.normal
        n3 == p3.normal
        n2_cross_n3 == vec3_cross(n2, n3)
        denom == vec3_dot(n1, n2_cross_n3)
        n3_cross_n1 == vec3_cross(n3, n1)
        n1_cross_n2 == vec3_cross(n1, n2)
        term1 == vec3_scale(n2_cross_n3, p1.constant)
        term2 == vec3_scale(n3_cross_n1, p2.constant)
        term3 == vec3_scale(n1_cross_n2, p3.constant)
        sum == vec3_add(vec3_add(term1, term2), term3)
    IN  IF plane3_degenerate(denom) THEN [ok |-> FALSE, out |-> out]
        ELSE [ok |-> TRUE, out |-> vec3_scale(sum, Div(I(-1), denom))]

\* normals: the axes, two oblique ones, the zero vector and three short ones
\* whose triple product is 2^-21
PlaneNormals ==
    { V(1, 0, 0), V(0, 1, 0), V(0, 0, 1), V(1, 1, 0), V(1, 2, 3), V(0, 0, 0),
      <<Rat(1, 128), Zero, Zero>>, <<Zero, Rat(1, 128), Zero>>, <<Zero, Zero, Rat(1, 128)>> }
PlaneConstants == {I(k) : k \in Coords}
PlaneOuts == {V(0, 0, 0), V(7, 8, 9)}

PlaneIntersect ==
    /\ call = NoCall
    /\ \E n1 \in PlaneNormals, n2 \in PlaneNormals, n3 \in PlaneNormals,
          d1 \in PlaneConstants, d2 \in PlaneConstants, d3 \in {Zero, One}, out \in PlaneOuts :
        LET p1 == [normal |-> n1, constant |-> d1]
            p2 == [normal |-> n2, constant |-> d2]
            p3 == [normal |-> n3, constant |-> d3]
            r == plane3_intersect(p1, p2, p3, out)
        IN  /\ call' = [op |-> "plane3.intersect", p1 |-> p1, p2 |-> p2, p3 |-> p3, out |-> out]
            /\ ret' = r.ok
            /\ written' = r.out
    /\ UNCHANGED <<obb, res, steps, scratch>>

NextPlane == PlaneIntersect

SpecPlane == InitIdle /\ [][NextPlane]_vars

\* n1 . (n2 x n3) of the planes of the call, as a determinant
TripleProduct ==
    LET a == call.p1.normal
        b == call.p2.normal
        c == call.p3.normal
    IN  Sub(Add(Add(Mul(a[1], Mul(b[2], c[3])), Mul(a[2], Mul(b[3], c[1]))),
                Mul(a[3], Mul(b[1], c[2]))),
            Add(Add(Mul(a[3], Mul(b[2], c[1])), Mul(a[2], Mul(b[1], c[3]))),
                Mul(a[1], Mul(b[3], c[2]))))

OnPlane(p, v) == Eq(Add(vec3_dot(p.normal, v), p.constant), Zero)

----------------------------------------------------------------------------
(* obb3.intersectsOBB3 with epsilon 0 on boxes whose axes are world axes *)

\* rotations that relabel the axes: 90 degrees about z and about y, 180
\* degrees about x, and the cyclic permutation x -> y -> z -> x
RotX180 == <<One, Zero, Zero, Zero, Neg(One), Zero, Zero, Zero, Neg(One)>>
RotCycle == <<Zero, One, Zero, Zero, Zero, One, One, Zero, Zero>>
SignedPermutations == {mat3_create, RotZ90, RotY90, RotX180, RotCycle}

PermutedCenters == {<<Rat(3 * x, 2), I(2 * y), I(3 * z)>> : x, y \in Coords, z \in 0..1}
PermutedPairs ==
    {<<Obb(V(0, 0, 0), ha, ra), Obb(cb, hb, rb)>> :
        ha \in {<<One, One, One>>, <<One, I(2), Half>>}, ra \in SignedPermutations,
        cb \in PermutedCenters, rb \in SignedPermutations,
        hb \in {<<One, One, One>>, <<Half, I(2), Zero>>, <<Zero, Zero, Zero>>}}

ObbIntersectsPermuted ==
    /\ call = NoCall
    /\ \E p \in PermutedPairs :
        /\ call' = [op |-> "obb3.intersectsOBB3", a |-> p[1], b |-> p[2], epsilon |-> Zero]
        /\ Returns(obb3_intersectsOBB3(p[1], p[2], Zero))
        /\ UNCHANGED <<obb, res, steps, scratch>>

NextOBBPermuted == ObbIntersectsPermuted

SpecOBBPermuted == InitIdle /\ [][NextOBBPermuted]_vars

\* r is a signed permutation matrix with determinant +1
SignedPermutation(r) ==
    /\ \A k \in 1..9 : r[k] \in {Zero, One, Neg(One)}
    /\ Orthonormal(r)

\* the half-width of the OBB o along world axis k: row k of |rotation| times
\* the half-extents
WorldHalf(o, k) ==
    Sum3(Mul(Abs(o.rotation[k]), o.halfExtents[1]),
         Mul(Abs(o.rotation[k + 3]), o.halfExtents[2]),
         Mul(Abs(o.rotation[k + 6]), o.halfExtents[3]))

\* the world-space AABB of o as a flat Box3
WorldBox(o) ==
    << Sub(o.center[1], WorldHalf(o, 1)), Sub(o.center[2], WorldHalf(o, 2)),
       Sub(o.center[3], WorldHalf(o, 3)), Add(o.center[1], WorldHalf(o, 1)),
       Add(o.center[2], WorldHalf(o, 2)), Add(o.center[3], WorldHalf(o, 3)) >>

PermutedCall ==
    /\ call.op = "obb3.intersectsOBB3"
    /\ call.epsilon = Zero
    /\ SignedPermutation(call.a.rotation) /\ SignedPermutation(call.b.rotation)
    /\ \A i \in 1..3 : Ge(call.a.halfExtents[i], Zero) /\ Ge(call.b.halfExtents[i], Zero)

\* C26: for OBBs a and b whose rotations are signed permutation matrices of
\* determinant +1 and whose half-extents are non-negative, intersectsOBB3(a,
\* b, 0) is true exactly when their world-space closed intervals overlap on
\* all three world axes, which is what box3.intersectsBox3 answers for their
\* world-space AABBs.
C26_PermutedObbsAsWorldBoxes ==
    PermutedCall =>
        LET A == WorldBox(call.a)
            B == WorldBox(call.b)
        IN  /\ ret <=> \A k \in 1..3 : Le(A[k], B[k + 3]) /\ Le(B[k], A[k + 3])
            /\ ret <=> box3_intersectsBox3(A, B)

\* a relabelled cube and a relabelled flat box that only touch
C26_Witness ==
    /\ PermutedCall
    /\ call.a.rotation = RotZ90 /\ call.b.rotation = RotCycle
    /\ call.b.halfExtents = <<Half, I(2), Zero>>
    /\ WorldBox(call.a)[6] = WorldBox(call.b)[3]
    /\ ret = TRUE

====
